---- MODULE Spec2Model ----
(***************************************************************************)
(* A model of the compiler core of rune (crates/rune/src/compiler.rs) and  *)
(* of the Names trie of runestick (crates/runestick/src/names.rs).         *)
(*                                                                         *)
(*   SpecPipeline  compile_with_options: parse loop, worker, verify_imports*)
(*                 and the loop that drains the query queue                *)
(*   SpecLookup    Compiler::lookup_meta                                   *)
(*   SpecPat       compile_condition / compile_pat and its helpers         *)
(***************************************************************************)
EXTENDS Integers, Sequences, FiniteSets, TLC

VARIABLES
    \* ---- compile_with_options -------------------------------------------
    pc,          \* position in compile_with_options
    sources,     \* what sources.next_source() has still to yield
    queue,       \* the worker's task queue (local `queue`, then worker.queue)
    qqueue,      \* worker.query.queue: the FIFO of BuildEntries
    unit,        \* the shared UnitBuilder: functions, imports, names
    context,     \* the Context's names (read-only)
    result,      \* what compile_with_options returned ("none" while running)
    hist,        \* history of the run (who was enqueued, compiled, run ...)
    \* ---- Compiler ---------------------------------------------------------
    compiler,    \* the Compiler of one compile_entry: context, query, items,
                 \* asm, unit, and the Scope a pattern declares its slots in
    call         \* the method of Compiler being called, and what it returned

pipeVars == <<pc, sources, queue, qqueue, unit, context, result, hist>>

compilerVars == <<compiler, call>>

vars == <<pc, sources, queue, qqueue, unit, context, result, hist,
          compiler, call>>

\* ------------------------------------------------------------------ bounds
MaxSources == 2      \* sources queued when compile_with_options is called
MaxTasks == 2        \* tasks the worker spawns besides the Index tasks
MaxEntries == 3      \* BuildEntries enqueued during one run
MaxRequeue == 1      \* times a wildcard import is deferred

\* ----------------------------------------------------------------- helpers
Last(s) == s[Len(s)]

Prefixes(p) == { SubSeq(p, 1, i) : i \in 0..Len(p) }

\* s with x inserted before position i (1..Len(s)+1)
InsertAt(s, i, x) == SubSeq(s, 1, i - 1) \o <<x>> \o SubSeq(s, i, Len(s))

NoSpan == [some |-> FALSE, span |-> 0, source_id |-> 0]
SomeSpan(sp, sid) == [some |-> TRUE, span |-> sp, source_id |-> sid]

\* ------------------------------------------------------------------- Names
\* A trie node is named by the path that leads to it from the root; `nodes`
\* are the nodes that exist, `term` those whose terminal flag is set.
EmptyNames == [nodes |-> {<<>>}, term |-> {}]

\* A faulty variant: the flag of every node on the way is set
NamesInsertFlagsWay(names, p) ==
    [nodes |-> names.nodes \cup Prefixes(p),
     term |-> names.term \cup Prefixes(p)]

\* Names::insert: walk down creating missing children, set the flag of the
\* node reached. (The value it returns is NamesInsertReturn.)
NamesInsert(names, p) ==
    [nodes |-> names.nodes \cup Prefixes(p), term |-> names.term \cup {p}]

NamesInsertReturn(names, p) == p \in names.term

RECURSIVE NamesWalk(_, _, _)
NamesWalk(names, current, rest) ==
    IF rest = <<>> THEN [some |-> TRUE, node |-> current]
    ELSE LET child == Append(current, Head(rest)) IN
         IF child \in names.nodes
         THEN NamesWalk(names, child, Tail(rest))
         ELSE [some |-> FALSE, node |-> <<>>]

\* Names::find_node
FindNode(names, p) == NamesWalk(names, <<>>, p)

\* A faulty variant: a node that exists counts, whatever its flag
NamesContainsNode(names, p) ==
    LET n == FindNode(names, p) IN n.some

\* Names::contains
NamesContains(names, p) ==
    LET n == FindNode(names, p) IN n.some /\ n.node \in names.term

\* Names::contains_prefix
NamesContainsPrefix(names, p) == FindNode(names, p).some

RECURSIVE NamesInsertAll(_, _)
NamesInsertAll(names, ps) ==
    IF ps = {} THEN names
    ELSE LET p == CHOOSE q \in ps : TRUE IN
         NamesInsertAll(NamesInsert(names, p), ps \ {p})

\* ------------------------------------------------ compile_with_options data
\* LoadError values. kind: "none" (still running), "Ok", "Internal",
\* "ParseError", "WorkerError" (whatever worker.run() failed with) and
\* "CompileError"; error: the CompileError inside.
Result(kind, source_id, error, item, span) ==
    [kind |-> kind, source_id |-> source_id, error |-> error,
     item |-> item, span |-> span]

Running == Result("none", 0, "none", <<>>, 0)
Ok == Result("Ok", 0, "none", <<>>, 0)

\* Source ids are dense: source i of the queue has id i - 1.
SourceKinds == {"ok", "parse_error", "missing"}
SourceIds == 0..(MaxSources - 1)

\* Items the sources of the model import, and the prelude a unit starts with.
ImportItems == {<<"std", "io">>, <<"m">>, <<"x">>}
Preludes ==
    LET std == [item |-> <<"std">>, span |-> NoSpan]
        core == [item |-> <<"core">>, span |-> NoSpan]
    IN {<<>>, <<std>>, <<core>>, <<std, core>>, <<core, std>>}
Contexts == {EmptyNames, NamesInsert(EmptyNames, <<"std", "io">>)}

IndexTask(source_id) == [kind |-> "Index", source_id |-> source_id]
ExpandImport(source_id) == [kind |-> "ExpandImport", source_id |-> source_id]
ExpandWildcardImport(source_id) ==
    [kind |-> "ExpandWildcardImport", source_id |-> source_id]

\* ---------------------------------------------------------- verify_imports
\* Walks unit.iter_imports() from position i; the first import that neither
\* the context nor the unit knows as a prefix ends the walk with its error.
RECURSIVE VerifyImportsFrom(_, _, _)
VerifyImportsFrom(ctx, u, i) ==
    IF i > Len(u.imports) THEN Ok
    ELSE LET entry == u.imports[i] IN
         IF NamesContainsPrefix(ctx, entry.item)
            \/ NamesContainsPrefix(u.names, entry.item)
         THEN VerifyImportsFrom(ctx, u, i + 1)
         ELSE IF entry.span.some
              THEN Result("CompileError", entry.span.source_id,
                          "MissingModule", entry.item, entry.span.span)
              ELSE Result("CompileError", 0,
                          "MissingPreludeModule", entry.item, 0)

\* A faulty variant: only the context is asked
VerifyImportsContextOnly(ctx, u) ==
    VerifyImportsFrom(ctx, [u EXCEPT !.names = [nodes |-> {}, term |-> {}]], 1)

VerifyImports(ctx, u) == VerifyImportsFrom(ctx, u, 1)

\* No Compiler exists and no method of it is being called.
IdleCompiler == [items |-> <<>>]
IdleCall == [fn |-> "none", state |-> "idle"]

\* ------------------------------------------------------------ the pipeline
InitPipeline ==
    /\ pc = "parse"
    /\ \E n \in 0..MaxSources : \E kinds \in [1..n -> SourceKinds] :
         sources = [i \in 1..n |-> [source_id |-> i - 1, kind |-> kinds[i]]]
    /\ queue = <<>>
    /\ qqueue = <<>>
    /\ context \in Contexts
    /\ \E prelude \in Preludes :
         unit = [functions |-> {}, imports |-> prelude, names |-> EmptyNames]
    /\ result = Running
    /\ hist = [enqueued |-> <<>>, compiled |-> <<>>, registered |-> {},
               tasksRun |-> 0, worker |-> "none", verified |-> 0,
               verify |-> Running, spawned |-> 0, requeued |-> 0,
               unit0 |-> unit, sources0 |-> sources]
    /\ compiler = IdleCompiler
    /\ call = IdleCall

Return(r) == pc' = "done" /\ result' = r

\* The n BuildEntries that follow the ones enqueued so far; `by` tells who
\* enqueued them: the indexer ("index") or query_meta ("query").
NewEntries(n, source_id, by) ==
    [i \in 1..n |-> [id |-> Len(hist.enqueued) + i, source_id |-> source_id,
                     by |-> by]]

\* A faulty variant: a source that fails to parse is skipped and the loop goes on
ParseSourceSkipErrors ==
    /\ pc = "parse" /\ sources # <<>>
    /\ sources' = Tail(sources)
    /\ queue' = IF Head(sources).kind = "ok"
                THEN Append(queue, IndexTask(Head(sources).source_id))
                ELSE queue
    /\ UNCHANGED <<pc, result, qqueue, unit, context, hist>>
    /\ UNCHANGED compilerVars

\* while let Some((item, source_id)) = sources.next_source() { ... }
ParseSource ==
    /\ pc = "parse" /\ sources # <<>>
    /\ LET src == Head(sources) IN
       /\ sources' = Tail(sources)
       /\ CASE src.kind = "missing" ->
                 Return(Result("Internal", 0, "none", <<>>, 0))
                 /\ UNCHANGED queue
            [] src.kind = "parse_error" ->
                 Return(Result("ParseError", src.source_id, "none", <<>>, 0))
                 /\ UNCHANGED queue
            [] OTHER ->
                 /\ queue' = Append(queue, IndexTask(src.source_id))
                 /\ UNCHANGED <<pc, result>>
    /\ UNCHANGED <<qqueue, unit, context, hist>>
    /\ UNCHANGED compilerVars

\* A faulty variant: the worker is constructed and never run
NewWorkerNoRun ==
    /\ pc = "parse" /\ sources = <<>>
    /\ pc' = "verify"
    /\ hist' = [hist EXCEPT !.worker = "ok"]
    /\ UNCHANGED <<sources, queue, qqueue, unit, context, result>>
    /\ UNCHANGED compilerVars

\* let mut worker = Worker::new(queue, ...)
NewWorker ==
    /\ pc = "parse" /\ sources = <<>>
    /\ pc' = "worker"
    /\ hist' = [hist EXCEPT !.worker = "new"]
    /\ UNCHANGED <<sources, queue, qqueue, unit, context, result>>
    /\ UNCHANGED compilerVars

\* One task of worker.run(): an Index task indexes its file (names, build
\* entries, import tasks), an import task records its import in the unit.
WorkerIndex(task, rest) ==
    \E n \in 0..2, spawn \in SUBSET {"ExpandImport", "ExpandWildcardImport"},
       named \in BOOLEAN :
      /\ Len(hist.enqueued) + n <= MaxEntries
      /\ hist.spawned + Cardinality(spawn) <= MaxTasks
      /\ qqueue' = qqueue \o NewEntries(n, task.source_id, "index")
      /\ queue' = rest
            \o (IF "ExpandImport" \in spawn
                THEN <<ExpandImport(task.source_id)>> ELSE <<>>)
            \o (IF "ExpandWildcardImport" \in spawn
                THEN <<ExpandWildcardImport(task.source_id)>> ELSE <<>>)
      /\ unit' = IF named
                 THEN [unit EXCEPT !.names = NamesInsert(@, <<"m", "f">>)]
                 ELSE unit
      /\ hist' = [hist EXCEPT
                    !.enqueued = @ \o NewEntries(n, task.source_id, "index"),
                    !.spawned = @ + Cardinality(spawn),
                    !.tasksRun = @ + 1]
      /\ UNCHANGED <<pc, result>>

WorkerExpandImport(task, rest) ==
    \E item \in ImportItems, at \in 1..(Len(unit.imports) + 1) :
      /\ unit' = [unit EXCEPT !.imports =
                    InsertAt(@, at, [item |-> item,
                                     span |-> SomeSpan(hist.tasksRun,
                                                       task.source_id)])]
      /\ queue' = rest
      /\ hist' = [hist EXCEPT !.tasksRun = @ + 1]
      /\ UNCHANGED <<pc, result, qqueue>>

\* A wildcard import is put back while other tasks may still add names;
\* expanded, it imports every name known under its module.
WorkerExpandWildcardImport(task, rest) ==
    \/ /\ rest # <<>> /\ hist.requeued < MaxRequeue
       /\ queue' = Append(rest, task)
       /\ hist' = [hist EXCEPT !.requeued = @ + 1, !.tasksRun = @ + 1]
       /\ UNCHANGED <<pc, result, qqueue, unit>>
    \/ /\ queue' = rest
       /\ unit' = [unit EXCEPT !.imports =
                     IF <<"m", "f">> \in unit.names.nodes
                     THEN Append(@, [item |-> <<"m", "f">>,
                                     span |-> SomeSpan(hist.tasksRun,
                                                       task.source_id)])
                     ELSE @]
       /\ hist' = [hist EXCEPT !.tasksRun = @ + 1]
       /\ UNCHANGED <<pc, result, qqueue>>

WorkerStep ==
    /\ pc = "worker" /\ queue # <<>>
    /\ LET task == Head(queue)
           rest == Tail(queue)
       IN CASE task.kind = "Index" -> WorkerIndex(task, rest)
            [] task.kind = "ExpandImport" -> WorkerExpandImport(task, rest)
            [] OTHER -> WorkerExpandWildcardImport(task, rest)
    /\ UNCHANGED <<sources, context>>
    /\ UNCHANGED compilerVars

\* A task fails: worker.run()? returns the error.
WorkerFail ==
    /\ pc = "worker" /\ queue # <<>>
    /\ Return(Result("WorkerError", Head(queue).source_id, "none", <<>>, 0))
    /\ hist' = [hist EXCEPT !.worker = "err", !.tasksRun = @ + 1]
    /\ UNCHANGED <<sources, queue, qqueue, unit, context>>
    /\ UNCHANGED compilerVars

\* worker.run() finds its queue empty and returns Ok(()).
WorkerDone ==
    /\ pc = "worker" /\ queue = <<>>
    /\ pc' = "verify"
    /\ hist' = [hist EXCEPT !.worker = "ok"]
    /\ UNCHANGED <<sources, queue, qqueue, unit, context, result>>
    /\ UNCHANGED compilerVars

\* A faulty variant: the call of verify_imports is left out
VerifySkipped ==
    /\ pc = "verify"
    /\ pc' = "compile"
    /\ UNCHANGED <<sources, queue, qqueue, unit, context, result, hist>>
    /\ UNCHANGED compilerVars

\* verify_imports(context, &mut *unit.borrow_mut())?
Verify ==
    /\ pc = "verify"
    /\ LET r == VerifyImports(context, unit) IN
       /\ hist' = [hist EXCEPT !.verified = @ + 1, !.verify = r]
       /\ IF r.kind = "Ok"
          THEN pc' = "compile" /\ UNCHANGED result
          ELSE Return(r)
    /\ UNCHANGED <<sources, queue, qqueue, unit, context>>
    /\ UNCHANGED compilerVars

\* while let Some(entry) = worker.query.queue.pop_front() { compile_entry }
\* compile_entry may have query_meta enqueue further entries; it registers
\* the entry's function only when the body compiled.
\* A faulty variant: pop_back instead of pop_front
PopEntryBack ==
    [entry |-> Last(qqueue), rest |-> SubSeq(qqueue, 1, Len(qqueue) - 1)]

PopEntry == [entry |-> Head(qqueue), rest |-> Tail(qqueue)]

\* A faulty variant: the error is kept and the loop goes on with the next entry
OnCompileErrorContinue(entry) ==
    /\ result' = Result("CompileError", entry.source_id, "Entry", <<>>, 0)
    /\ pc' = pc

\* What the loop does with an error of compile_entry.
OnCompileError(entry) ==
    Return(Result("CompileError", entry.source_id, "Entry", <<>>, 0))

\* A faulty variant: the function is not registered
NewFunctionDropped(u, entry) == u

\* unit.borrow_mut().new_function(source_id, item, count, asm, call, args)
NewFunction(u, entry) == [u EXCEPT !.functions = @ \cup {entry.id}]

CompileEntry ==
    /\ pc = "compile" /\ qqueue # <<>>
    /\ LET entry == PopEntry.entry IN
       \E n \in 0..1, ok \in BOOLEAN :
         /\ Len(hist.enqueued) + n <= MaxEntries
         /\ qqueue' = PopEntry.rest \o NewEntries(n, entry.source_id, "query")
         /\ IF ok
            THEN /\ unit' = NewFunction(unit, entry)
                 /\ UNCHANGED <<pc, result>>
            ELSE /\ OnCompileError(entry)
                 /\ UNCHANGED unit
         /\ hist' = [hist EXCEPT
                       !.enqueued = @ \o NewEntries(n, entry.source_id, "query"),
                       !.compiled = Append(@, entry),
                       !.registered = IF ok THEN @ \cup {entry.id} ELSE @]
    /\ UNCHANGED <<sources, queue, context>>
    /\ UNCHANGED compilerVars

\* The queue is empty: Ok(())
Finish ==
    /\ pc = "compile" /\ qqueue = <<>>
    /\ Return(Ok)
    /\ UNCHANGED <<sources, queue, qqueue, unit, context, hist>>
    /\ UNCHANGED compilerVars

NextPipeline ==
    \/ ParseSource
    \/ NewWorker
    \/ WorkerStep
    \/ WorkerFail
    \/ WorkerDone
    \/ Verify
    \/ CompileEntry
    \/ Finish

SpecPipeline == InitPipeline /\ [][NextPipeline]_vars

\* ------------------------------------------------- claims on the pipeline
EntryIds(s) == { s[i].id : i \in DOMAIN s }

CompileFailed == result.kind = "CompileError" /\ result.error = "Entry"

\* C1: the entries passed to compile_entry are, in order, the entries that
\* were enqueued (by the indexer or by query_meta during a compilation), each
\* once; what is still queued is the rest of them in the same order; and Ok
\* is returned only with the queue empty and every entry compiled.
C1_EntriesOnceFifo ==
    /\ Len(hist.compiled) <= Len(hist.enqueued)
    /\ hist.compiled = SubSeq(hist.enqueued, 1, Len(hist.compiled))
    /\ qqueue = SubSeq(hist.enqueued, Len(hist.compiled) + 1,
                       Len(hist.enqueued))
    /\ \A i, j \in DOMAIN hist.compiled :
         hist.compiled[i].id = hist.compiled[j].id => i = j
    /\ result.kind = "Ok" =>
         qqueue = <<>> /\ hist.compiled = hist.enqueued

C1_Witness ==
    /\ result.kind = "Ok"
    /\ Len(hist.compiled) >= 3
    /\ \E i \in DOMAIN hist.compiled : hist.compiled[i].by = "query"
    /\ \E i \in DOMAIN hist.compiled : hist.compiled[i].by = "index"

\* C2: an entry is compiled only when every queued source has been parsed
\* and the worker has run all of its tasks; the worker starts with one Index
\* task per source, in source order, and runs no task before all are parsed.
C2_IndexingBeforeCompile ==
    /\ hist.compiled # <<>> =>
         sources = <<>> /\ queue = <<>> /\ hist.worker = "ok"
    /\ pc \in {"verify", "compile"} => queue = <<>>
    /\ hist.tasksRun > 0 => sources = <<>>
    /\ (pc = "worker" /\ hist.tasksRun = 0) =>
         queue = [i \in DOMAIN hist.sources0 |->
                    IndexTask(hist.sources0[i].source_id)]

C2_Witness ==
    /\ hist.compiled # <<>>
    /\ hist.tasksRun >= 3
    /\ Len(hist.sources0) = 2

\* C3: verify_imports runs at most once, only after worker.run() returned
\* Ok; no entry is compiled and Ok is not returned without it; after a
\* failure of worker.run() it has not run and nothing is compiled.
C3_VerifyOnceAfterWorker ==
    /\ hist.verified <= 1
    /\ hist.verified = 1 => hist.worker = "ok" /\ queue = <<>>
    /\ (hist.compiled # <<>> \/ pc = "compile" \/ result.kind = "Ok") =>
         hist.verified = 1 /\ hist.verify.kind = "Ok"
    /\ hist.worker = "err" =>
         /\ hist.verified = 0 /\ hist.compiled = <<>>
         /\ pc = "done" /\ result.kind = "WorkerError"

C3_Witness ==
    /\ hist.verified = 1
    /\ Len(hist.compiled) >= 2
    /\ hist.tasksRun >= 2

\* C4: when compile_entry fails, the run is over with a CompileError that
\* carries the failing entry's source_id, and the failing entry is the last
\* one that was compiled: what was queued behind it stays queued.
C4_CompileErrorStops ==
    CompileFailed =>
      /\ pc = "done"
      /\ hist.compiled # <<>>
      /\ result.source_id = Last(hist.compiled).source_id
      /\ Last(hist.compiled).id \notin hist.registered
      /\ \A i \in 1..(Len(hist.compiled) - 1) :
           hist.compiled[i].id \in hist.registered
      /\ EntryIds(qqueue) \cap EntryIds(hist.compiled) = {}

C4_Witness ==
    /\ CompileFailed
    /\ Len(hist.compiled) >= 2
    /\ qqueue # <<>>
    /\ result.source_id = 1

\* C5 as stated: after a failed compile_entry the UnitBuilder holds none of
\* the functions of the run.
C5_NoFunctionsAfterError == CompileFailed => unit.functions = {}

\* C5 amended: after a failed compile_entry the UnitBuilder holds exactly
\* the functions of the entries compiled before the failing one; the failing
\* entry and the entries still queued have none.  Nothing is rolled back.
C5_FunctionsOfEarlierEntriesStay ==
    /\ unit.functions \subseteq EntryIds(hist.compiled)
    /\ CompileFailed =>
         /\ unit.functions =
              { hist.compiled[i].id : i \in 1..(Len(hist.compiled) - 1) }
         /\ Last(hist.compiled).id \notin unit.functions
         /\ EntryIds(qqueue) \cap unit.functions = {}

C5_Witness ==
    /\ CompileFailed
    /\ unit.functions # {}
    /\ Len(hist.compiled) >= 2
    /\ qqueue # <<>>

\* C6: the first queued source that cannot be used decides the parse loop;
\* when it is a parse error the run ends with a ParseError of its source_id,
\* and then no worker exists, no task ran, verify_imports did not run, no
\* entry was compiled and the UnitBuilder is as it was.
FirstBad ==
    LET bad == { i \in DOMAIN hist.sources0 : hist.sources0[i].kind # "ok" }
    IN IF bad = {} THEN 0
       ELSE CHOOSE i \in bad : \A j \in bad : i <= j

C6_ParseErrorBeforeWorker ==
    /\ result.kind = "ParseError" =>
         /\ pc = "done"
         /\ FirstBad # 0
         /\ hist.sources0[FirstBad].kind = "parse_error"
         /\ result.source_id = hist.sources0[FirstBad].source_id
         /\ hist.worker = "none" /\ hist.tasksRun = 0
         /\ hist.verified = 0
         /\ hist.compiled = <<>> /\ hist.enqueued = <<>>
         /\ unit = hist.unit0
    /\ (FirstBad # 0 /\ hist.sources0[FirstBad].kind = "parse_error") =>
         /\ pc \in {"parse", "done"}
         /\ pc = "done" => result.kind = "ParseError"

C6_Witness ==
    /\ result.kind = "ParseError"
    /\ result.source_id = 1
    /\ Len(queue) = 1

\* C7: verify_imports returns Ok exactly when every import of the unit is a
\* prefix of (or equal to) a name inserted in the Context or in the unit;
\* otherwise its error is that of the first such import in iteration order:
\* MissingModule with the import's span and source_id when it has a span,
\* MissingPreludeModule with source_id 0 when it has none.
Known(item) ==
    \E q \in context.term \cup unit.names.term : item \in Prefixes(q)

Offending == { i \in DOMAIN unit.imports : ~Known(unit.imports[i].item) }

C7_VerifyImports ==
    hist.verified = 1 =>
      /\ hist.verify.kind = "Ok" <=> Offending = {}
      /\ hist.verify.kind # "Ok" => result = hist.verify
      /\ Offending # {} =>
           LET first == CHOOSE i \in Offending : \A j \in Offending : i <= j
               entry == unit.imports[first]
           IN /\ hist.verify.kind = "CompileError"
              /\ hist.verify.item = entry.item
              /\ IF entry.span.some
                 THEN /\ hist.verify.error = "MissingModule"
                      /\ hist.verify.span = entry.span.span
                      /\ hist.verify.source_id = entry.span.source_id
                 ELSE /\ hist.verify.error = "MissingPreludeModule"
                      /\ hist.verify.source_id = 0

C7_Witness ==
    /\ hist.verified = 1
    /\ hist.verify.error = "MissingModule"
    /\ hist.verify.source_id = 1
    /\ Cardinality(Offending) >= 2
    /\ 1 \notin Offending

\* ======================================================== Compiler: metas
MaxItemDepth == 2    \* components of the item a lookup starts from

\* Hashes: tuple.hash and type_of are told apart by what they hash.
HashOf(of, item) == [of |-> of, item |-> item]

\* object.fields: None for a type whose fields are not known.
UnknownFields == [some |-> FALSE, names |-> {}]
Fields(names) == [some |-> TRUE, names |-> names]

TypedKinds == {"Tuple", "TupleVariant", "Struct", "StructVariant", "Function"}

\* CompileMeta. kind: Tuple, TupleVariant, Struct, StructVariant, Function,
\* or a kind without a type ("Macro"); args is tuple.args, fields is
\* object.fields; `from` tells who returned it: the Context or the Query.
Meta(kind, item, args, fields, from) ==
    [kind |-> kind, item |-> item, args |-> args, fields |-> fields,
     hash |-> HashOf("tuple", item),
     type_of |-> [some |-> kind \in TypedKinds, hash |-> HashOf("type", item)],
     from |-> from]

NoMeta == Meta("none", <<>>, 0, UnknownFields, "none")
None == [some |-> FALSE, meta |-> NoMeta]
Some(m) == [some |-> TRUE, meta |-> m]

\* The meta a set of metas holds for an item.
MetaOf(metas, item) ==
    LET ms == { m \in metas : m.item = item } IN
    IF ms = {} THEN None ELSE Some(CHOOSE m \in ms : TRUE)

\* Context::lookup_meta
ContextLookupMeta(ctx, name) == MetaOf(ctx.meta, name)

\* Query::query_meta(item, span): fails for the items it cannot build, else
\* answers from what was indexed; the first hit of a function enqueues its
\* BuildEntry. `log` keeps the items asked for, in order.
QueryMeta(query, item) ==
    LET asked == [query EXCEPT !.log = Append(@, item)]
        hit == MetaOf(query.meta, item)
    IN IF item \in query.failing
       THEN [err |-> TRUE, opt |-> None, query |-> asked]
       ELSE IF ~hit.some
       THEN [err |-> FALSE, opt |-> None, query |-> asked]
       ELSE [err |-> FALSE, opt |-> hit,
             query |-> IF hit.meta.kind = "Function" /\ item \notin query.built
                       THEN [asked EXCEPT !.queue = Append(@, item),
                                          !.built = @ \cup {item}]
                       ELSE asked]

\* Item::join
Join(base, name) == base \o name

\* Item::pop: None on the empty item, else the item loses its last component.
ItemPop(base) ==
    IF base = <<>> THEN [some |-> FALSE, base |-> base]
    ELSE [some |-> TRUE, base |-> SubSeq(base, 1, Len(base) - 1)]

\* What lookup_meta returns: ret is "Some", "None" or "Err"; compiler is the
\* Compiler after the call.
Lookup(ret, meta, c) == [ret |-> ret, meta |-> meta, compiler |-> c]

\* A faulty variant: the walk ends at the last named ancestor and the empty
\* root is never asked
RECURSIVE LookupLoopNoRoot(_, _, _)
LookupLoopNoRoot(c, base, name) ==
    LET q == QueryMeta(c.query, Join(base, name))
        c1 == [c EXCEPT !.query = q.query]
    IN IF q.err THEN Lookup("Err", NoMeta, c1)
       ELSE IF q.opt.some
       THEN Lookup("Some", q.opt.meta,
                   [c1 EXCEPT !.visited = Append(@, q.opt.meta)])
       ELSE IF Len(base) <= 1 THEN Lookup("None", NoMeta, c1)
       ELSE LookupLoopNoRoot(c1, ItemPop(base).base, name)

\* The loop of lookup_meta, entered with `base`.
RECURSIVE LookupLoop(_, _, _)
LookupLoop(c, base, name) ==
    LET q == QueryMeta(c.query, Join(base, name))
        c1 == [c EXCEPT !.query = q.query]
    IN IF q.err THEN Lookup("Err", NoMeta, c1)
       ELSE IF q.opt.some
       THEN Lookup("Some", q.opt.meta,
                   [c1 EXCEPT !.visited = Append(@, q.opt.meta)])
       ELSE IF ~ItemPop(base).some THEN Lookup("None", NoMeta, c1)
       ELSE LookupLoop(c1, ItemPop(base).base, name)

\* A faulty variant: user code is asked before the Context
LookupMetaQueryFirst(c, name) ==
    LET l == LookupLoop(c, c.items, name)
        ctx == ContextLookupMeta(c.context, name)
    IN IF l.ret = "None" /\ ctx.some
       THEN Lookup("Some", ctx.meta,
                   [l.compiler EXCEPT !.visited = Append(@, ctx.meta)])
       ELSE l

\* Compiler::lookup_meta
LookupMeta(c, name) ==
    LET ctx == ContextLookupMeta(c.context, name) IN
    IF ctx.some
    THEN Lookup("Some", ctx.meta, [c EXCEPT !.visited = Append(@, ctx.meta)])
    ELSE LookupLoop(c, c.items, name)

\* ------------------------------------------------------------ SpecLookup
Components == {"a", "b"}

RECURSIVE ItemsUpTo(_)
ItemsUpTo(n) ==
    IF n = 0 THEN {<<>>}
    ELSE ItemsUpTo(n - 1)
         \cup { Append(i, c) : i \in ItemsUpTo(n - 1), c \in Components }

LookupNames == {<<"x">>, <<"b">>, <<"b", "x">>}

\* The items lookup_meta can ask the Query for.
Joins(items, name) == { Join(b, name) : b \in Prefixes(items) }

\* What the Query knows of an item: nothing, a type, a function still to be
\* built, or an item whose query fails.
QueryKinds == {"none", "Tuple", "Function", "error"}

EmptyQuery ==
    [meta |-> {}, failing |-> {}, built |-> {}, queue |-> <<>>, log |-> <<>>]

QueryOf(known) ==
    [EmptyQuery EXCEPT
       !.meta = { Meta(known[i], i, 0, UnknownFields, "query") :
                    i \in { j \in DOMAIN known :
                              known[j] \in {"Tuple", "Function"} } },
       !.failing = { i \in DOMAIN known : known[i] = "error" }]

InitLookup ==
    /\ \E items \in ItemsUpTo(MaxItemDepth), name \in LookupNames :
       \E inContext \in SUBSET {name, Join(items, name)},
          known \in [Joins(items, name) -> QueryKinds] :
         /\ compiler =
              [items |-> items,
               context |-> [meta |-> { Meta("Tuple", i, 0, UnknownFields, "context") :
                                        i \in inContext }],
               query |-> QueryOf(known),
               visited |-> <<>>]
         /\ call = [fn |-> "lookup_meta", state |-> "called", name |-> name,
                    compiler0 |-> compiler]
    /\ pc = "idle" /\ sources = <<>> /\ queue = <<>> /\ qqueue = <<>>
    /\ unit = [functions |-> {}, imports |-> <<>>, names |-> EmptyNames]
    /\ context = EmptyNames /\ result = Running /\ hist = <<>>

CallLookupMeta ==
    /\ call.fn = "lookup_meta" /\ call.state = "called"
    /\ LET l == LookupMeta(compiler, call.name) IN
       /\ compiler' = l.compiler
       /\ call' = [call EXCEPT !.state = "returned"] @@
                  [ret |-> l.ret, meta |-> l.meta]
    /\ UNCHANGED pipeVars

NextLookup == CallLookupMeta

SpecLookup == InitLookup /\ [][NextLookup]_vars

\* ------------------------------------------------------- claims on lookup
LookupReturned == call.fn = "lookup_meta" /\ call.state = "returned"

\* Lengths of the bases whose join with the name the Query does not miss.
HitBases ==
    { k \in 0..Len(compiler.items) :
        LET item == Join(SubSeq(compiler.items, 1, k), call.name) IN
        \/ MetaOf(call.compiler0.query.meta, item).some
        \/ item \in call.compiler0.query.failing }

LongestHit == CHOOSE k \in HitBases : \A j \in HitBases : j <= k

\* C8: a meta of the Context for the name is returned as it is, and then the
\* Query is not asked and no BuildEntry is enqueued; without one, the meta
\* returned is the Query's for base.join(name) with the longest base, among
\* the current item and its ancestors, for which the Query has an answer.
C8_ContextThenNearestScope ==
    LookupReturned =>
      LET ctx == MetaOf(call.compiler0.context.meta, call.name) IN
      /\ ctx.some =>
           /\ call.ret = "Some" /\ call.meta = ctx.meta
           /\ call.meta.from = "context"
           /\ compiler.query = call.compiler0.query
      /\ (~ctx.some /\ HitBases = {}) => call.ret = "None"
      /\ (~ctx.some /\ HitBases # {}) =>
           LET item == Join(SubSeq(compiler.items, 1, LongestHit), call.name)
           IN IF item \in call.compiler0.query.failing
              THEN call.ret = "Err"
              ELSE /\ call.ret = "Some"
                   /\ call.meta = MetaOf(call.compiler0.query.meta, item).meta
                   /\ call.meta.from = "query"
                   /\ call.meta.kind = "Function" =>
                        compiler.query.queue = <<item>>

C8_Witness ==
    /\ LookupReturned
    /\ ~MetaOf(call.compiler0.context.meta, call.name).some
    /\ call.ret = "Some"
    /\ Cardinality(HitBases) >= 2
    /\ LongestHit = 1 /\ Len(compiler.items) = 2
    /\ compiler.query.queue # <<>>

\* ------------------------------------------------ claims on the lookup walk
\* The items the Query was asked for during the call, in order.
Asked == compiler.query.log

\* The i-th item of the walk: the current item, shortened i - 1 times, joined
\* with the name.
WalkItem(i) ==
    Join(SubSeq(call.compiler0.items, 1, Len(call.compiler0.items) - (i - 1)), call.name)

QueryMisses(item) ==
    /\ ~MetaOf(call.compiler0.query.meta, item).some
    /\ item \notin call.compiler0.query.failing

\* C29: lookup_meta returns; when the Context misses, the Query is asked for
\* base.join(name) with base the current item and then each shorter ancestor
\* down to the empty root, in that order, and no further than the first item
\* it does not miss; at most len(current item) + 1 items are asked for, and
\* None is returned only when the Context and every one of those joins miss.
C29_LookupWalk ==
    LookupReturned =>
      LET ctx == MetaOf(call.compiler0.context.meta, call.name)
          n == Len(call.compiler0.items)
      IN /\ call.ret \in {"Some", "None", "Err"}
         /\ Len(Asked) <= n + 1
         /\ ctx.some => Asked = <<>>
         /\ ~ctx.some =>
              /\ Len(Asked) >= 1
              /\ \A i \in 1..Len(Asked) : Asked[i] = WalkItem(i)
              /\ \A i \in 1..(Len(Asked) - 1) : QueryMisses(Asked[i])
              /\ Len(Asked) < n + 1 => ~QueryMisses(Asked[Len(Asked)])
         /\ call.ret = "None" <=>
              /\ ~ctx.some
              /\ Len(Asked) = n + 1
              /\ \A i \in 1..(n + 1) : QueryMisses(WalkItem(i))

C29_Witness ==
    /\ LookupReturned
    /\ call.ret = "None"
    /\ Len(call.compiler0.items) = 2
    /\ Asked = <<Join(call.compiler0.items, call.name),
                 Join(<<call.compiler0.items[1]>>, call.name),
                 call.name>>


\* ============================================= Compiler: pattern compiler
\* The Compiler `c` is threaded through every operator below: c.asm is the
\* Assembly, c.unit the UnitBuilder's static strings and key sets, c.scope
\* the Scope handed to compile_pat (`scope: &mut Scope`), and c.error the
\* CompileError a `?` returned with ([kind |-> "none"] when there is none).
NoError == [kind |-> "none"]
Failed(c) == c.error.kind # "none"
Fail(c, error) == [c EXCEPT !.error = error]

\* What compile_pat and its helpers return: the Compiler and Ok(ret).
Ret(c, ret) == [c |-> c, ret |-> ret]

\* ---- Assembly
\* Assembly::push
Push(c, inst) == [c EXCEPT !.asm.insts = Append(@, inst)]

\* Assembly::new_label: the label is the number of labels allocated.
NewLabel(c) == [c EXCEPT !.asm.labels = @ + 1]

\* Assembly::label: binds the label to the next instruction; an Err when the
\* label is bound already.
Label(c, label) ==
    IF \E i \in DOMAIN c.asm.bound : c.asm.bound[i].label = label
    THEN Fail(c, [kind |-> "DuplicateLabel", label |-> label])
    ELSE [c EXCEPT !.asm.bound =
            Append(@, [label |-> label, offset |-> Len(c.asm.insts)])]

\* Assembly::jump, jump_if, pop_and_jump_if_not
Jump(c, label) == Push(c, [op |-> "Jump", label |-> label])
JumpIf(c, label) == Push(c, [op |-> "JumpIf", label |-> label])
PopAndJumpIfNot(c, count, label) ==
    Push(c, [op |-> "PopAndJumpIfNot", count |-> count, label |-> label])

\* ---- Scope
\* Scopes::child: a scope of its own above the slots of its parent.
ChildScope(parent) ==
    [locals |-> <<>>, local_var_count |-> 0,
     total_var_count |-> parent.total_var_count]

\* The slot decl_anon and decl_var hand out.
NextOffset(c) == c.scope.total_var_count

\* Scope::decl_anon
DeclAnon(c) ==
    [c EXCEPT !.scope.total_var_count = @ + 1,
              !.scope.local_var_count = @ + 1]

\* Scope::decl_var: a name declared again shadows, it does not fail.
DeclVar(c, name) ==
    [c EXCEPT !.scope.locals =
                Append(@, [name |-> name, offset |-> NextOffset(c)]),
              !.scope.total_var_count = @ + 1,
              !.scope.local_var_count = @ + 1]

\* ---- UnitBuilder
\* The position of x in s, 0 when it is not there.
IndexOf(s, x) ==
    IF \E i \in DOMAIN s : s[i] = x
    THEN CHOOSE i \in DOMAIN s : s[i] = x /\ \A j \in 1..(i - 1) : s[j] # x
    ELSE 0

\* UnitBuilder::new_static_string: the slot of the string, a new one when
\* the pool does not hold it. Slots count from 0.
StaticStringSlot(c, string) ==
    IF IndexOf(c.unit.static_strings, string) # 0
    THEN IndexOf(c.unit.static_strings, string) - 1
    ELSE Len(c.unit.static_strings)

NewStaticString(c, string) ==
    IF IndexOf(c.unit.static_strings, string) # 0 THEN c
    ELSE [c EXCEPT !.unit.static_strings = Append(@, string)]

\* UnitBuilder::new_static_object_keys
StaticObjectKeysSlot(c, keys) ==
    IF IndexOf(c.unit.static_object_keys, keys) # 0
    THEN IndexOf(c.unit.static_object_keys, keys) - 1
    ELSE Len(c.unit.static_object_keys)

NewStaticObjectKeys(c, keys) ==
    IF IndexOf(c.unit.static_object_keys, keys) # 0 THEN c
    ELSE [c EXCEPT !.unit.static_object_keys = Append(@, keys)]

\* UnitBuilder::convert_path: the sources of the model use no `use`, so a
\* path names the item of its own components.
ConvertPathToItem(c, path) == path

\* Context::type_check_for
TypeCheckFor(ctx, item) ==
    LET ts == { t \in ctx.type_checks : t.item = item } IN
    IF ts = {} THEN [some |-> FALSE, type_check |-> [tc |-> "none"]]
    ELSE [some |-> TRUE, type_check |-> (CHOOSE t \in ts : TRUE).type_check]

\* Item::as_local: the only component of an item that has one.
AsLocal(item) ==
    IF Len(item) = 1 THEN [some |-> TRUE, ident |-> item[1]]
    ELSE [some |-> FALSE, ident |-> ""]

\* ---- load closures
\* `load: &dyn Fn(&mut Assembly)` is the instruction the closure pushes:
\* none for `|_| {}` of compile_condition (the value is on the stack).
LoadNone == [op |-> "none"]
LoadTupleIndexGetAt(offset, index) ==
    [op |-> "TupleIndexGetAt", offset |-> offset, index |-> index]
LoadObjectSlotIndexGetAt(offset, slot) ==
    [op |-> "ObjectSlotIndexGetAt", offset |-> offset, slot |-> slot]

Load(c, load) == IF load.op = "none" THEN c ELSE Push(c, load)

\* ---- TypeCheck
TypeCheck(tc) == [tc |-> tc]
TypeCheckType(hash) == [tc |-> "Type", hash |-> hash]
TypeCheckVariant(hash) == [tc |-> "Variant", hash |-> hash]

\* A faulty variant: the check derived from the meta, whatever the Context
TypeCheckOrDerived(c, item, derived) == derived

\* The check a tuple gets: the Context's for its item, else the derived one.
TypeCheckOr(c, item, derived) ==
    IF TypeCheckFor(c.context, item).some
    THEN TypeCheckFor(c.context, item).type_check
    ELSE derived

\* The error of a `?` on lookup_meta (what query_meta failed with).
QueryError == [kind |-> "QueryError"]

RECURSIVE CompilePat(_, _, _, _)

\* A faulty variant: the check is emitted and Ok(false) returned
CompilePatMetaBindingUnused(c, meta, false_label, load) ==
    IF meta.kind \in {"Tuple", "TupleVariant"} /\ meta.args = 0
    THEN LET c1 == Push(Load(c, load),
                        [op |-> "MatchSequence",
                         type_check |-> TypeCheck("Tuple"),
                         len |-> meta.args, exact |-> TRUE])
         IN Ret(PopAndJumpIfNot(c1, c1.scope.local_var_count, false_label),
                FALSE)
    ELSE Ret(c, FALSE)

\* Compiler::compile_pat_meta_binding
CompilePatMetaBinding(c, meta, false_label, load) ==
    IF meta.kind \in {"Tuple", "TupleVariant"} /\ meta.args = 0
    THEN LET derived == IF meta.kind = "Tuple"
                        THEN TypeCheckType(meta.type_of.hash)
                        ELSE TypeCheckVariant(meta.type_of.hash)
             c1 == Push(Load(c, load),
                        [op |-> "MatchSequence",
                         type_check |-> TypeCheckOr(c, meta.item, derived),
                         len |-> meta.args, exact |-> TRUE])
         IN Ret(PopAndJumpIfNot(c1, c1.scope.local_var_count, false_label),
                TRUE)
    ELSE Ret(c, FALSE)

\* A faulty variant: the items of a vec pattern jump to a label of their own
RECURSIVE CompilePatVecItemsOwnLabel(_, _, _, _, _)
CompilePatVecItemsOwnLabel(c, items, index, offset, false_label) ==
    IF index >= Len(items) \/ Failed(c) THEN c
    ELSE CompilePatVecItemsOwnLabel(
           CompilePat(c, items[index + 1], false_label + 1,
                      LoadTupleIndexGetAt(offset, index)).c,
           items, index + 1, offset, false_label)

\* for (index, (pat, _)) in pat_vec.items.iter().enumerate()
RECURSIVE CompilePatVecItems(_, _, _, _, _)
CompilePatVecItems(c, items, index, offset, false_label) ==
    IF index >= Len(items) \/ Failed(c) THEN c
    ELSE CompilePatVecItems(
           CompilePat(c, items[index + 1], false_label,
                      LoadTupleIndexGetAt(offset, index)).c,
           items, index + 1, offset, false_label)

\* A faulty variant: the match of a vec pattern is exact when it is open
CompilePatVecExactOpen(c, pat_vec, false_label, load) ==
    LET c1 == Load(c, load)
        offset == NextOffset(c1)
        c2 == Push(DeclAnon(c1), [op |-> "Copy", offset |-> offset])
        c3 == Push(c2, [op |-> "MatchSequence",
                        type_check |-> TypeCheck("Vec"),
                        len |-> Len(pat_vec.items),
                        exact |-> pat_vec.open_pattern])
        c4 == PopAndJumpIfNot(c3, c3.scope.local_var_count, false_label)
    IN CompilePatVecItems(c4, pat_vec.items, 0, offset, false_label)

\* Compiler::compile_pat_vec
CompilePatVec(c, pat_vec, false_label, load) ==
    LET c1 == Load(c, load)
        offset == NextOffset(c1)
        c2 == Push(DeclAnon(c1), [op |-> "Copy", offset |-> offset])
        c3 == Push(c2, [op |-> "MatchSequence",
                        type_check |-> TypeCheck("Vec"),
                        len |-> Len(pat_vec.items),
                        exact |-> ~pat_vec.open_pattern])
        c4 == PopAndJumpIfNot(c3, c3.scope.local_var_count, false_label)
    IN CompilePatVecItems(c4, pat_vec.items, 0, offset, false_label)

\* A faulty variant: an open pattern is accepted with any number of items
PatTupleMetaTypeCheckOpen(l, pat_tuple) ==
    LET meta == l.meta
        count == Len(pat_tuple.items)
        is_open == pat_tuple.open_pattern
        err(e) == [c |-> Fail(l.compiler, e),
                   type_check |-> TypeCheck("none")]
    IN IF l.ret = "Err" THEN err(QueryError)
       ELSE IF l.ret = "None" THEN err([kind |-> "UnsupportedPattern"])
       ELSE IF meta.kind \notin {"Tuple", "TupleVariant"}
       THEN err([kind |-> "UnsupportedMetaPattern", meta |-> meta])
       ELSE IF ~(meta.args = count \/ is_open)
       THEN err([kind |-> "UnsupportedArgumentCount", meta |-> meta,
                 expected |-> meta.args, actual |-> count])
       ELSE [c |-> l.compiler,
             type_check |->
               TypeCheckOr(l.compiler, meta.item,
                           IF meta.kind = "Tuple"
                           THEN TypeCheckType(meta.type_of.hash)
                           ELSE TypeCheckVariant(meta.type_of.hash))]

\* The type check of a tuple pattern with a path, `l` what lookup_meta has
\* returned for its item: the Compiler after the lookup, and the check or the
\* error in it.
PatTupleMetaTypeCheck(l, pat_tuple) ==
    LET meta == l.meta
        count == Len(pat_tuple.items)
        is_open == pat_tuple.open_pattern
        err(e) == [c |-> Fail(l.compiler, e),
                   type_check |-> TypeCheck("none")]
    IN IF l.ret = "Err" THEN err(QueryError)
       ELSE IF l.ret = "None" THEN err([kind |-> "UnsupportedPattern"])
       ELSE IF meta.kind \notin {"Tuple", "TupleVariant"}
       THEN err([kind |-> "UnsupportedMetaPattern", meta |-> meta])
       ELSE IF ~(meta.args = count \/ (count < meta.args /\ is_open))
       THEN err([kind |-> "UnsupportedArgumentCount", meta |-> meta,
                 expected |-> meta.args, actual |-> count])
       ELSE [c |-> l.compiler,
             type_check |->
               TypeCheckOr(l.compiler, meta.item,
                           IF meta.kind = "Tuple"
                           THEN TypeCheckType(meta.type_of.hash)
                           ELSE TypeCheckVariant(meta.type_of.hash))]

\* The type check of a tuple pattern (compile_pat_tuple, `let type_check =`).
PatTupleTypeCheck(c, pat_tuple) ==
    IF ~pat_tuple.path.some
    THEN [c |-> c, type_check |-> TypeCheck("Tuple")]
    ELSE PatTupleMetaTypeCheck(
           LookupMeta(c, ConvertPathToItem(c, pat_tuple.path.path)),
           pat_tuple)

\* for (index, (pat, _)) in pat_tuple.items.iter().enumerate()
RECURSIVE CompilePatTupleItems(_, _, _, _, _)
CompilePatTupleItems(c, items, index, offset, false_label) ==
    IF index >= Len(items) \/ Failed(c) THEN c
    ELSE CompilePatTupleItems(
           CompilePat(c, items[index + 1], false_label,
                      LoadTupleIndexGetAt(offset, index)).c,
           items, index + 1, offset, false_label)

\* compile_pat_tuple once the type check `t` is known: the match of the
\* sequence, then the items.
CompilePatTupleMatch(t, pat_tuple, offset, false_label) ==
    IF Failed(t.c) THEN t.c
    ELSE LET c2 == Push(t.c, [op |-> "Copy", offset |-> offset])
             c3 == Push(c2, [op |-> "MatchSequence",
                             type_check |-> t.type_check,
                             len |-> Len(pat_tuple.items),
                             exact |-> ~pat_tuple.open_pattern])
             c4 == PopAndJumpIfNot(c3, c3.scope.local_var_count,
                                   false_label)
         IN CompilePatTupleItems(c4, pat_tuple.items, 0, offset, false_label)

\* Compiler::compile_pat_tuple
CompilePatTuple(c, pat_tuple, false_label, load) ==
    CompilePatTupleMatch(PatTupleTypeCheck(DeclAnon(Load(c, load)), pat_tuple),
                         pat_tuple, NextOffset(Load(c, load)), false_label)

\* The span of the i-th field of an object pattern is its position.
FieldSpan(pat_object, i) == i

\* A faulty variant: a key is compared with the key before it alone
RECURSIVE PatObjectKeysAdjacent(_, _, _)
PatObjectKeysAdjacent(st, pat_object, i) ==
    IF i > Len(pat_object.fields) THEN st
    ELSE LET key == pat_object.fields[i].key.name
             span == FieldSpan(pat_object, i)
             dup == { d \in st.keys_dup : d.key = key /\ d.span = span - 1 }
             c1 == NewStaticString(st.c, key)
             st1 == [c |-> c1,
                     string_slots |->
                       Append(st.string_slots, StaticStringSlot(st.c, key)),
                     keys |-> Append(st.keys, key),
                     keys_dup |-> st.keys_dup
                                    \cup {[key |-> key, span |-> span]}]
         IN IF dup # {}
            THEN [st1 EXCEPT !.c =
                    Fail(c1, [kind |-> "DuplicateObjectKey", span |-> span,
                              existing |-> (CHOOSE d \in dup : TRUE).span])]
            ELSE PatObjectKeysAdjacent(st1, pat_object, i + 1)

\* for (item, _) in &pat_object.fields: the static string of every key and
\* the keys seen so far; st is [c, string_slots, keys, keys_dup].
RECURSIVE PatObjectKeys(_, _, _)
PatObjectKeys(st, pat_object, i) ==
    IF i > Len(pat_object.fields) THEN st
    ELSE LET key == pat_object.fields[i].key.name
             span == FieldSpan(pat_object, i)
             dup == { d \in st.keys_dup : d.key = key }
             c1 == NewStaticString(st.c, key)
             st1 == [c |-> c1,
                     string_slots |->
                       Append(st.string_slots, StaticStringSlot(st.c, key)),
                     keys |-> Append(st.keys, key),
                     keys_dup |-> (st.keys_dup \ dup)
                                    \cup {[key |-> key, span |-> span]}]
         IN IF dup # {}
            THEN [st1 EXCEPT !.c =
                    Fail(c1, [kind |-> "DuplicateObjectKey", span |-> span,
                              existing |-> (CHOOSE d \in dup : TRUE).span])]
            ELSE PatObjectKeys(st1, pat_object, i + 1)

\* A faulty variant: the keys of an open pattern are not validated
PatObjectMetaTypeCheckOpen(l, item, pat_object) ==
    LET meta == l.meta
        err(e) == [c |-> Fail(l.compiler, e),
                   type_check |-> TypeCheck("none")]
        notField == { i \in DOMAIN pat_object.fields :
                        /\ ~pat_object.open_pattern
                        /\ pat_object.fields[i].key.name
                             \notin meta.fields.names }
    IN IF l.ret = "Err" THEN err(QueryError)
       ELSE IF l.ret = "None"
       THEN err([kind |-> "MissingType", item |-> item])
       ELSE IF meta.kind \notin {"Struct", "StructVariant"}
       THEN err([kind |-> "UnsupportedMetaPattern", meta |-> meta])
       ELSE IF ~meta.fields.some
       THEN err([kind |-> "UnsupportedMetaPattern", meta |-> meta])
       ELSE IF notField # {}
       THEN LET i == CHOOSE i \in notField : \A j \in notField : i <= j
            IN err([kind |-> "LitObjectNotField",
                    span |-> FieldSpan(pat_object, i),
                    field |-> pat_object.fields[i].key.name,
                    item |-> meta.item])
       ELSE [c |-> l.compiler,
             type_check |-> IF meta.kind = "Struct"
                            THEN TypeCheckType(meta.type_of.hash)
                            ELSE TypeCheckVariant(meta.type_of.hash)]

\* The type check of an object pattern with a path, `l` what lookup_meta has
\* returned for `item`: the Compiler after the lookup, and the check or the
\* error in it.
PatObjectMetaTypeCheck(l, item, pat_object) ==
    LET meta == l.meta
        err(e) == [c |-> Fail(l.compiler, e),
                   type_check |-> TypeCheck("none")]
        notField == { i \in DOMAIN pat_object.fields :
                        pat_object.fields[i].key.name
                          \notin meta.fields.names }
    IN IF l.ret = "Err" THEN err(QueryError)
       ELSE IF l.ret = "None"
       THEN err([kind |-> "MissingType", item |-> item])
       ELSE IF meta.kind \notin {"Struct", "StructVariant"}
       THEN err([kind |-> "UnsupportedMetaPattern", meta |-> meta])
       ELSE IF ~meta.fields.some
       THEN err([kind |-> "UnsupportedMetaPattern", meta |-> meta])
       ELSE IF notField # {}
       THEN LET i == CHOOSE i \in notField : \A j \in notField : i <= j
            IN err([kind |-> "LitObjectNotField",
                    span |-> FieldSpan(pat_object, i),
                    field |-> pat_object.fields[i].key.name,
                    item |-> meta.item])
       ELSE [c |-> l.compiler,
             type_check |-> IF meta.kind = "Struct"
                            THEN TypeCheckType(meta.type_of.hash)
                            ELSE TypeCheckVariant(meta.type_of.hash)]

\* The type check of an object pattern (compile_pat_object, `let type_check
\* =`).
PatObjectTypeCheck(c, pat_object) ==
    IF ~pat_object.ident.named
    THEN [c |-> c, type_check |-> TypeCheck("Object")]
    ELSE PatObjectMetaTypeCheck(
           LookupMeta(c, ConvertPathToItem(c, pat_object.ident.path)),
           ConvertPathToItem(c, pat_object.ident.path), pat_object)

\* for ((item, _), slot) in pat_object.fields.iter().zip(string_slots)
RECURSIVE CompilePatObjectFields(_, _, _, _, _, _)
CompilePatObjectFields(c, pat_object, string_slots, i, offset, false_label) ==
    IF i > Len(pat_object.fields) \/ Failed(c) THEN c
    ELSE LET item == pat_object.fields[i]
             load == LoadObjectSlotIndexGetAt(offset, string_slots[i])
             next(c1) == CompilePatObjectFields(c1, pat_object, string_slots,
                                                i + 1, offset, false_label)
         IN IF item.binding.some
            THEN next(CompilePat(c, item.binding.pat, false_label, load).c)
            ELSE IF ~item.key.ident
            THEN Fail(c, [kind |-> "UnsupportedBinding",
                          span |-> FieldSpan(pat_object, i)])
            ELSE next(DeclVar(Load(c, load), item.key.name))

\* compile_pat_object once the type check `t` is known: the match of the
\* object against the key set `keys`, then the fields.
CompilePatObjectMatch(t, pat_object, keys, slots, offset, false_label) ==
    IF Failed(t.c) THEN t.c
    ELSE LET c2 == Push(t.c, [op |-> "Copy", offset |-> offset])
             c3 == Push(c2, [op |-> "MatchObject",
                             type_check |-> t.type_check,
                             slot |-> keys,
                             exact |-> ~pat_object.open_pattern])
             c4 == PopAndJumpIfNot(c3, c3.scope.local_var_count,
                                   false_label)
         IN CompilePatObjectFields(c4, pat_object, slots, 1, offset,
                                   false_label)

\* compile_pat_object once the keys `k` are collected: the key set, then the
\* type check.
CompilePatObjectKeyed(k, pat_object, offset, false_label) ==
    IF Failed(k.c) THEN k.c
    ELSE CompilePatObjectMatch(
           PatObjectTypeCheck(NewStaticObjectKeys(k.c, k.keys), pat_object),
           pat_object, StaticObjectKeysSlot(k.c, k.keys), k.string_slots,
           offset, false_label)

\* Compiler::compile_pat_object
CompilePatObject(c, pat_object, false_label, load) ==
    CompilePatObjectKeyed(
      PatObjectKeys([c |-> DeclAnon(Load(c, load)), string_slots |-> <<>>,
                     keys |-> <<>>, keys_dup |-> {}], pat_object, 1),
      pat_object, NextOffset(Load(c, load)), false_label)

\* A faulty variant: a path of several components binds its last component
CompilePatPathBindingLast(b, item, load) ==
    IF b.ret THEN Ret(b.c, TRUE)
    ELSE Ret(DeclVar(Load(b.c, load), item[Len(item)]), FALSE)

\* ast::Pat::PatPath of compile_pat after compile_pat_meta_binding, `b` what
\* it has returned (Ok(false) without a meta): the binding of the identifier.
CompilePatPathBinding(b, item, load) ==
    IF b.ret THEN Ret(b.c, TRUE)
    ELSE IF ~AsLocal(item).some
    THEN Ret(Fail(b.c, [kind |-> "UnsupportedBinding"]), FALSE)
    ELSE Ret(DeclVar(Load(b.c, load), AsLocal(item).ident), FALSE)

\* ast::Pat::PatPath of compile_pat after lookup_meta, `l` what it has
\* returned for `item`.
CompilePatPathMeta(l, item, false_label, load) ==
    IF l.ret = "Err" THEN Ret(Fail(l.compiler, QueryError), FALSE)
    ELSE CompilePatPathBinding(
           IF l.ret = "Some"
           THEN CompilePatMetaBinding(l.compiler, l.meta, false_label, load)
           ELSE Ret(l.compiler, FALSE),
           item, load)

\* ast::Pat::PatPath of compile_pat
CompilePatPath(c, pat, false_label, load) ==
    CompilePatPathMeta(LookupMeta(c, ConvertPathToItem(c, pat.path)),
                       ConvertPathToItem(c, pat.path), false_label, load)

\* The literal patterns of compile_pat: the comparison pushed after the load.
\* A string allocates its static string before the load.
PatLiteralInst(c, pat) ==
    CASE pat.kind = "PatUnit" -> [op |-> "IsUnit"]
      [] pat.kind = "PatByte" -> [op |-> "EqByte", byte |-> pat.byte]
      [] pat.kind = "PatChar" ->
           [op |-> "EqCharacter", character |-> pat.character]
      [] pat.kind = "PatNumber" ->
           [op |-> "EqInteger", integer |-> pat.number.value]
      [] pat.kind = "PatString" ->
           [op |-> "EqStaticString",
            slot |-> StaticStringSlot(c, pat.string)]

\* A faulty variant: a float literal is loaded before it is rejected
CompilePatFloatLoaded(c, pat, false_label, load) ==
    CASE pat.kind = "PatPath" -> CompilePatPath(c, pat, false_label, load)
      [] pat.kind = "PatIgnore" -> Ret(c, FALSE)
      [] pat.kind = "PatVec" ->
           Ret(CompilePatVec(c, pat, false_label, load), TRUE)
      [] pat.kind = "PatTuple" ->
           Ret(CompilePatTuple(c, pat, false_label, load), TRUE)
      [] pat.kind = "PatObject" ->
           Ret(CompilePatObject(c, pat, false_label, load), TRUE)
      [] pat.kind = "PatNumber" /\ pat.number.kind = "Float" ->
           Ret(Fail(Load(c, load), [kind |-> "MatchFloatInPattern"]), FALSE)
      [] OTHER ->
           LET c1 == IF pat.kind = "PatString"
                     THEN NewStaticString(c, pat.string) ELSE c
               c2 == Push(Load(c1, load), PatLiteralInst(c, pat))
           IN Ret(PopAndJumpIfNot(c2, c2.scope.local_var_count, false_label),
                  TRUE)

\* Compiler::compile_pat
CompilePat(c, pat, false_label, load) ==
    CASE pat.kind = "PatPath" -> CompilePatPath(c, pat, false_label, load)
      [] pat.kind = "PatIgnore" -> Ret(c, FALSE)
      [] pat.kind = "PatVec" ->
           Ret(CompilePatVec(c, pat, false_label, load), TRUE)
      [] pat.kind = "PatTuple" ->
           Ret(CompilePatTuple(c, pat, false_label, load), TRUE)
      [] pat.kind = "PatObject" ->
           Ret(CompilePatObject(c, pat, false_label, load), TRUE)
      [] pat.kind = "PatNumber" /\ pat.number.kind = "Float" ->
           Ret(Fail(c, [kind |-> "MatchFloatInPattern"]), FALSE)
      [] OTHER ->
           LET c1 == IF pat.kind = "PatString"
                     THEN NewStaticString(c, pat.string) ELSE c
               c2 == Push(Load(c1, load), PatLiteralInst(c, pat))
           IN Ret(PopAndJumpIfNot(c2, c2.scope.local_var_count, false_label),
                  TRUE)

\* self.compile((expr, Needs::Value)): code that leaves the value of the
\* expression on the stack.
CompileExpr(c) == Push(c, [op |-> "Expr"])

\* What compile_condition returns: the Compiler, with the Scope returned in
\* c.scope; the label it allocated and what compile_pat answered.
Condition(c, false_label, used) ==
    [c |-> c, false_label |-> false_label, used |-> used]

\* ast::Condition::ExprLet of compile_condition after compile_pat, `p` what
\* it has returned.
CompileConditionLet(p, then_label, false_label) ==
    IF Failed(p.c) THEN Condition(p.c, false_label, p.ret)
    ELSE IF p.ret
    THEN Condition(Label(Jump(p.c, then_label), false_label),
                   false_label, TRUE)
    ELSE Condition(Jump(p.c, then_label), false_label, FALSE)

\* Compiler::compile_condition
CompileCondition(c, condition, then_label) ==
    IF condition.kind = "Expr"
    THEN Condition([JumpIf(CompileExpr(c), then_label)
                      EXCEPT !.scope = ChildScope(c.scopes)], 0, FALSE)
    ELSE LET false_label == NewLabel(c).asm.labels
             c1 == [NewLabel(c) EXCEPT !.scope = ChildScope(c.scopes)]
         IN CompileConditionLet(
              CompilePat(CompileExpr(c1), condition.pat, false_label,
                         LoadNone),
              then_label, false_label)

\* enum Needs
Needs == {"Type", "Value", "None"}

\* A faulty variant: a tuple of any arity is called
CompileMetaCalled(c, meta, needs) ==
    IF needs = "Value"
    THEN CASE meta.kind \in {"Tuple", "TupleVariant"} ->
                Push(c, [op |-> "Call", hash |-> meta.hash, args |-> 0])
           [] meta.kind = "Function" ->
                Push(c, [op |-> "Fn", hash |-> meta.type_of.hash])
           [] OTHER ->
                Fail(c, [kind |-> "UnsupportedValue", meta |-> meta])
    ELSE IF ~meta.type_of.some
    THEN Fail(c, [kind |-> "UnsupportedType", meta |-> meta])
    ELSE Push(c, [op |-> "Type", hash |-> meta.type_of.hash])

\* A faulty variant: the type of a meta is taken from the hash of its tuple
CompileMetaTupleType(c, meta, needs) ==
    IF needs = "Value"
    THEN CASE meta.kind \in {"Tuple", "TupleVariant"} /\ meta.args = 0 ->
                Push(c, [op |-> "Call", hash |-> meta.hash, args |-> 0])
           [] meta.kind \in {"Tuple", "TupleVariant"} /\ meta.args # 0 ->
                Push(c, [op |-> "Fn", hash |-> meta.hash])
           [] meta.kind = "Function" ->
                Push(c, [op |-> "Fn", hash |-> meta.type_of.hash])
           [] OTHER ->
                Fail(c, [kind |-> "UnsupportedValue", meta |-> meta])
    ELSE Push(c, [op |-> "Type", hash |-> meta.hash])

\* Compiler::compile_meta: `if let Needs::Value = needs` picks the
\* instruction by the kind of the meta; any other need takes the type.
CompileMeta(c, meta, needs) ==
    IF needs = "Value"
    THEN CASE meta.kind \in {"Tuple", "TupleVariant"} /\ meta.args = 0 ->
                Push(c, [op |-> "Call", hash |-> meta.hash, args |-> 0])
           [] meta.kind \in {"Tuple", "TupleVariant"} /\ meta.args # 0 ->
                Push(c, [op |-> "Fn", hash |-> meta.hash])
           [] meta.kind = "Function" ->
                Push(c, [op |-> "Fn", hash |-> meta.type_of.hash])
           [] OTHER ->
                Fail(c, [kind |-> "UnsupportedValue", meta |-> meta])
    ELSE IF ~meta.type_of.some
    THEN Fail(c, [kind |-> "UnsupportedType", meta |-> meta])
    ELSE Push(c, [op |-> "Type", hash |-> meta.type_of.hash])

\* ---------------------------------------------------------------- SpecPat
MaxPatSize == 3      \* nodes of the pattern compiled
MaxFields == 3       \* fields of an object pattern of keys alone

\* The items of the program compiled: what the Context provides ...
PatContext ==
    [meta |-> { Meta("TupleVariant", <<"None">>, 0, UnknownFields, "context"),
                Meta("TupleVariant", <<"Some">>, 1, UnknownFields, "context") },
     type_checks |->
       { [item |-> <<"None">>, type_check |-> [tc |-> "Option", variant |-> 1]],
         [item |-> <<"Some">>, type_check |-> [tc |-> "Option", variant |-> 0]] }]

\* ... and what its source declares: struct Empty; struct Pair(a, b);
\* enum E { A, B(x), SV { a } }; struct S { a, b }; fn f() {}
PatQuery ==
    [EmptyQuery EXCEPT !.meta =
       { Meta("Tuple", <<"Empty">>, 0, UnknownFields, "query"),
         Meta("Tuple", <<"Pair">>, 2, UnknownFields, "query"),
         Meta("TupleVariant", <<"E", "A">>, 0, UnknownFields, "query"),
         Meta("TupleVariant", <<"E", "B">>, 1, UnknownFields, "query"),
         Meta("StructVariant", <<"E", "SV">>, 0, Fields({"a"}), "query"),
         Meta("Struct", <<"S">>, 0, Fields({"a", "b"}), "query"),
         Meta("Function", <<"f">>, 0, UnknownFields, "query") }]

\* ast::Pat
PatPath(path) == [kind |-> "PatPath", path |-> path]
PatVec(items, open) ==
    [kind |-> "PatVec", items |-> items, open_pattern |-> open]
PatTuple(path, items, open) ==
    [kind |-> "PatTuple", path |-> path, items |-> items,
     open_pattern |-> open]
PatObject(ident, fields, open) ==
    [kind |-> "PatObject", ident |-> ident, fields |-> fields,
     open_pattern |-> open]

NoPath == [some |-> FALSE]
Path(path) == [some |-> TRUE, path |-> path]
Anonymous == [named |-> FALSE]
Named(path) == [named |-> TRUE, path |-> path]

\* A field of an object pattern: `key` alone or `key: pat`; the key is an
\* identifier or a string literal.
Key(ident, name) == [ident |-> ident, name |-> name]
Field(key) == [key |-> key, binding |-> [some |-> FALSE]]
FieldPat(key, pat) == [key |-> key, binding |-> [some |-> TRUE, pat |-> pat]]

PatLeaves ==
    { [kind |-> "PatIgnore"],
      [kind |-> "PatNumber", number |-> [kind |-> "Integer", value |-> 1]],
      [kind |-> "PatNumber", number |-> [kind |-> "Float", value |-> 1]],
      [kind |-> "PatString", string |-> "s"],
      PatPath(<<"x">>), PatPath(<<"m", "x">>),
      PatPath(<<"Empty">>), PatPath(<<"None">>) }

\* The patterns without sub-patterns that the condition itself may be.
RootLeaves ==
    PatLeaves
    \cup { [kind |-> "PatUnit"], [kind |-> "PatByte", byte |-> 1],
           [kind |-> "PatChar", character |-> "c"],
           PatPath(<<"Pair">>), PatPath(<<"E", "A">>), PatPath(<<"E", "B">>),
           PatPath(<<"S">>), PatPath(<<"f">>), PatPath(<<"Some">>) }

FieldKeys == { Key(TRUE, "a"), Key(TRUE, "c"), Key(FALSE, "a") }
BoundKeys == { Key(TRUE, "a") }

\* The patterns whose root has the sequences `seqs` of items or `fields` of
\* fields to choose from.
PatHeads(seqs, fields) ==
    { PatVec(items, open) : items \in seqs, open \in BOOLEAN }
    \cup { PatTuple(NoPath, items, FALSE) : items \in seqs }
    \cup { PatTuple(Path(<<"Pair">>), items, TRUE) : items \in seqs }
    \cup { PatObject(Anonymous, fs, FALSE) : fs \in fields }
    \cup { PatObject(Named(<<"S">>), fs, TRUE) : fs \in fields }

\* The paths a tuple pattern and an object pattern of the condition itself
\* may name; <<"Nope">> is no item of the program.
TuplePaths ==
    { <<"Empty">>, <<"Pair">>, <<"E", "B">>, <<"Some">>, <<"S">>, <<"f">>,
      <<"Nope">> }
ObjectPaths == { <<"S">>, <<"E", "SV">>, <<"Pair">>, <<"Nope">> }

\* The patterns the condition itself may be, with the sequences `seqs` of
\* items or `fields` of fields to choose from.
RootHeads(seqs, fields) ==
    { PatVec(items, open) : items \in seqs, open \in BOOLEAN }
    \cup { PatTuple(path, items, open) :
             path \in {NoPath} \cup { Path(i) : i \in TuplePaths },
             items \in seqs, open \in BOOLEAN }
    \cup { PatObject(ident, fs, open) :
             ident \in {Anonymous} \cup { Named(i) : i \in ObjectPaths },
             fs \in fields, open \in BOOLEAN }

\* The fields that stand for k nodes: a field with a pattern counts as its
\* pattern, `pats` the patterns of k nodes, and a field without one as one.
FieldsOver(k, pats) ==
    (IF k = 1 THEN { Field(key) : key \in FieldKeys } ELSE {})
    \cup { FieldPat(key, p) : key \in BoundKeys, p \in pats }

\* The patterns, the sequences of patterns and the sequences of fields by
\* their number of nodes: pats[k] of k nodes for k up to n, seqs[k + 1] and
\* fields[k + 1] of k nodes together for k below n.
RECURSIVE PatsBySize(_)
PatsBySize(n) ==
    IF n = 0
    THEN [pats |-> <<>>, seqs |-> <<>>, fields |-> <<>>]
    ELSE LET t == PatsBySize(n - 1)
             m == n - 1
             seqs ==
                 IF m = 0 THEN {<<>>}
                 ELSE UNION { { <<p>> \o rest :
                                  p \in t.pats[k], rest \in t.seqs[m - k + 1] } :
                              k \in 1..m }
             fields ==
                 IF m = 0 THEN {<<>>}
                 ELSE UNION { { <<f>> \o rest :
                                  f \in FieldsOver(k, t.pats[k]),
                                  rest \in t.fields[m - k + 1] } :
                              k \in 1..m }
             new == (IF n = 1 THEN PatLeaves ELSE {})
                    \cup PatHeads(seqs, fields)
         IN [pats |-> Append(t.pats, new), seqs |-> Append(t.seqs, seqs),
             fields |-> Append(t.fields, fields)]

PatTable == PatsBySize(MaxPatSize - 1)

\* ast::Condition
CondExpr == [kind |-> "Expr"]
CondExprLet(pat) == [kind |-> "ExprLet", pat |-> pat]

\* The Compiler of a function with one argument, about to compile the
\* condition of an `if` whose then_label is allocated.
PatCompiler ==
    [items |-> <<"main">>,
     context |-> PatContext,
     query |-> PatQuery,
     visited |-> <<>>,
     asm |-> [insts |-> <<>>, labels |-> 1, bound |-> <<>>],
     unit |-> [static_strings |-> <<>>, static_object_keys |-> <<>>],
     scopes |-> [locals |-> <<[name |-> "arg", offset |-> 0]>>,
                 local_var_count |-> 1, total_var_count |-> 1],
     scope |-> [locals |-> <<>>, local_var_count |-> 0, total_var_count |-> 0],
     error |-> NoError]

\* The keys of the object patterns of keys alone, and the sequences of up to
\* n such fields.
RootKeys == FieldKeys \cup { Key(TRUE, "b"), Key(TRUE, "d") }
KeySeqs(n) ==
    UNION { [1..m -> { Field(key) : key \in RootKeys }] : m \in 0..n }

\* compile_condition is called with then_label allocated.
CalledWith(condition) ==
    call = [fn |-> "compile_condition", state |-> "called",
            condition |-> condition, then_label |-> 1]

\* The metas compile_meta is called with: those of the program, and one of a
\* kind that has no type; and its call.
CompiledMetas ==
    PatContext.meta \cup PatQuery.meta
      \cup { Meta("Macro", <<"mac">>, 0, UnknownFields, "query") }
CalledWithMeta(meta, needs) ==
    call = [fn |-> "compile_meta", state |-> "called",
            meta |-> meta, needs |-> needs]

\* compile_meta is called with a meta and a need; or compile_condition is:
\* the condition is an expression, or a `let` whose pattern has up to
\* MaxPatSize nodes: a pattern of one node, or one whose root holds a first
\* item or field of k nodes and further ones of up to j nodes together; or
\* a `let` of an object pattern of up to MaxFields keys.
InitPat ==
    /\ compiler = PatCompiler
    /\ \/ CalledWith(CondExpr)
       \/ \E meta \in CompiledMetas, needs \in Needs :
            CalledWithMeta(meta, needs)
       \/ \E p \in RootLeaves \cup RootHeads({<<>>}, {<<>>}) :
            CalledWith(CondExprLet(p))
       \/ \E k \in 1..(MaxPatSize - 1) : \E j \in 0..(MaxPatSize - 1 - k) :
            \/ \E first \in PatTable.pats[k], rest \in PatTable.seqs[j + 1] :
                 \E p \in RootHeads({<<first>> \o rest}, {}) :
                   CalledWith(CondExprLet(p))
            \/ \E f \in FieldsOver(k, PatTable.pats[k]),
                  rest \in PatTable.fields[j + 1] :
                 \E p \in RootHeads({}, {<<f>> \o rest}) :
                   CalledWith(CondExprLet(p))
       \/ \E fs \in KeySeqs(MaxFields) :
            \E p \in RootHeads({}, {fs}) : CalledWith(CondExprLet(p))
    /\ pc = "idle" /\ sources = <<>> /\ queue = <<>> /\ qqueue = <<>>
    /\ unit = [functions |-> {}, imports |-> <<>>, names |-> EmptyNames]
    /\ context = EmptyNames /\ result = Running /\ hist = <<>>

CallCompileCondition ==
    /\ call.fn = "compile_condition" /\ call.state = "called"
    /\ LET r == CompileCondition(compiler, call.condition, call.then_label) IN
       /\ compiler' = r.c
       /\ call' = [call EXCEPT !.state = "returned"] @@
                  [false_label |-> r.false_label, used |-> r.used]
    /\ UNCHANGED pipeVars

CallCompileMeta ==
    /\ call.fn = "compile_meta" /\ call.state = "called"
    /\ compiler' = CompileMeta(compiler, call.meta, call.needs)
    /\ call' = [call EXCEPT !.state = "returned"]
    /\ UNCHANGED pipeVars

NextPat == CallCompileCondition \/ CallCompileMeta

SpecPat == InitPat /\ [][NextPat]_vars

\* ---------------------------------------------------------------- stack
\* What an instruction does to the height of the operand stack when control
\* falls through it: a load or the scrutinee expression pushes one value, a
\* match or equality test replaces the value on top by its boolean, and a
\* conditional jump pops the boolean it tests.
StackEffect(inst) ==
    CASE inst.op \in {"Expr", "Copy", "TupleIndexGetAt",
                      "ObjectSlotIndexGetAt"} -> 1
      [] inst.op \in {"MatchSequence", "MatchObject", "IsUnit", "EqByte",
                      "EqCharacter", "EqInteger", "EqStaticString"} -> 0
      [] inst.op \in {"PopAndJumpIfNot", "JumpIf"} -> -1
      [] inst.op = "Jump" -> 0

\* The height of the stack above the slots of the parent scope after the
\* first n instructions have fallen through.
RECURSIVE Depth(_, _)
Depth(insts, n) ==
    IF n = 0 THEN 0 ELSE Depth(insts, n - 1) + StackEffect(insts[n])

ConditionReturned ==
    /\ call.fn = "compile_condition" /\ call.state = "returned"
    /\ ~Failed(compiler)

LetReturned == ConditionReturned /\ call.condition.kind = "ExprLet"

\* The pop_and_jump_if_not instructions that jump to the label.
JumpsTo(label) ==
    { i \in DOMAIN compiler.asm.insts :
        /\ compiler.asm.insts[i].op = "PopAndJumpIfNot"
        /\ compiler.asm.insts[i].label = label }

\* C9: stack balance of patterns: the count of every pop_and_jump_if_not is
\* the number of values the pattern has left on the stack for its scope, and
\* after a successful compile_pat the values the scrutinee expression and the
\* loads have pushed are as many as the slots the scope has declared, for
\* every pattern kind, an Ignore pattern at the top of a `let` condition
\* included.
C9_StackBalance ==
    LetReturned =>
      /\ \A i \in DOMAIN compiler.asm.insts :
           compiler.asm.insts[i].op = "PopAndJumpIfNot" =>
             compiler.asm.insts[i].count = Depth(compiler.asm.insts, i)
      /\ Depth(compiler.asm.insts, Len(compiler.asm.insts))
           = compiler.scope.local_var_count

\* C10: label closure of pattern conditions: compile_pat returns true
\* exactly when a jump to false_label has been emitted, and compile_condition
\* binds false_label exactly when compile_pat returned true, so the label is
\* never a jump target without being bound and never bound twice.
C10_LabelClosure ==
    LetReturned =>
      LET bound == { i \in DOMAIN compiler.asm.bound :
                       compiler.asm.bound[i].label = call.false_label }
      IN /\ call.used <=> JumpsTo(call.false_label) # {}
         /\ Cardinality(bound) = (IF call.used THEN 1 ELSE 0)
         /\ JumpsTo(call.false_label) # {} => bound # {}
         /\ \A i \in DOMAIN compiler.asm.insts :
              compiler.asm.insts[i].op = "PopAndJumpIfNot" =>
                compiler.asm.insts[i].label = call.false_label

\* A path pattern of a zero-arity tuple has jumped to false_label below a
\* pattern that jumps itself, and a pattern that only binds has not.
C10_Witness ==
    /\ LetReturned
    /\ \/ /\ call.condition.pat.kind = "PatVec"
          /\ Cardinality(JumpsTo(call.false_label)) >= 2
          /\ \E i \in DOMAIN call.condition.pat.items :
               call.condition.pat.items[i] = PatPath(<<"Empty">>)
       \/ /\ call.condition.pat = PatPath(<<"Empty">>)
          /\ call.used

\* compile_condition has returned from a `let` condition, with or without an
\* error.
LetDone ==
    /\ call.fn = "compile_condition" /\ call.state = "returned"
    /\ call.condition.kind = "ExprLet"

\* The root pattern and its sub-patterns.
RootPat == call.condition.pat
Items(pat) ==
    IF pat.kind \in {"PatVec", "PatTuple"} THEN pat.items ELSE <<>>

\* The indices of the instructions with one of the operations.
InstsOf(ops) ==
    { i \in DOMAIN compiler.asm.insts : compiler.asm.insts[i].op \in ops }

\* C11: every conditional jump emitted for a pattern and its sub-patterns at
\* any depth targets the one false_label of the outermost compile_pat, the
\* pattern compiler allocates no label besides it, and the code of a pattern
\* holds no other jump: a match falls through.
C11_SharedFalseLabel ==
    LetDone =>
      /\ \A i \in InstsOf({"PopAndJumpIfNot"}) :
           compiler.asm.insts[i].label = call.false_label
      /\ compiler.asm.labels = call.false_label
      /\ call.false_label = call.then_label + 1
      /\ InstsOf({"JumpIf"}) = {}
      /\ InstsOf({"Jump"}) =
           (IF Failed(compiler) THEN {} ELSE {Len(compiler.asm.insts)})

\* A vec pattern holds a tuple, vec or object pattern that holds a literal:
\* three mismatch branches at three depths.
C11_Witness ==
    /\ LetReturned
    /\ RootPat.kind = "PatVec" /\ Len(RootPat.items) = 1
    /\ RootPat.items[1].kind \in {"PatVec", "PatTuple", "PatObject"}
    /\ Cardinality(JumpsTo(call.false_label)) = 3

\* The sub-patterns of a pattern: its items, or the patterns of its fields.
SubPats(pat) ==
    IF pat.kind \in {"PatVec", "PatTuple"}
    THEN { pat.items[i] : i \in DOMAIN pat.items }
    ELSE IF pat.kind = "PatObject"
    THEN { pat.fields[i].binding.pat :
             i \in { j \in DOMAIN pat.fields : pat.fields[j].binding.some } }
    ELSE {}

IsFloat(pat) == pat.kind = "PatNumber" /\ pat.number.kind = "Float"
IsLeaf(pat) == pat.kind \notin {"PatVec", "PatTuple", "PatObject"}

\* The errors of the four checks of the pattern compiler.
CheckErrors ==
    { "DuplicateObjectKey", "LitObjectNotField", "UnsupportedArgumentCount",
      "MatchFloatInPattern" }

\* compile_condition has failed one of the four checks on the root pattern
\* itself: none of its sub-patterns is one that a check can fail.
RootCheckFailed ==
    /\ LetDone
    /\ compiler.error.kind \in CheckErrors
    /\ \A sub \in SubPats(RootPat) : IsLeaf(sub) /\ ~IsFloat(sub)

\* C12: duplicate-key detection, field-set validation, arity validation and
\* float rejection come before code emission: when the pattern of the
\* condition fails one of them, nothing but the scrutinee expression has been
\* appended to the Assembly, the scope has declared no slot and the
\* UnitBuilder has allocated no static string and no key set.
C12_ChecksBeforeEmission ==
    RootCheckFailed =>
      /\ compiler.asm.insts = <<[op |-> "Expr"]>>
      /\ compiler.scope.local_var_count = 0
      /\ compiler.scope.locals = <<>>
      /\ compiler.unit.static_strings = <<>>
      /\ compiler.unit.static_object_keys = <<>>

\* The fields of an object pattern whose key an earlier field has.
KeyName(pat, i) == pat.fields[i].key.name
Repeats(pat) ==
    { i \in DOMAIN pat.fields :
        \E j \in 1..(i - 1) : KeyName(pat, j) = KeyName(pat, i) }
Min(S) == CHOOSE i \in S : \A j \in S : i <= j

RecordMeta == MetaOf(PatQuery.meta, RootPat.ident.path).meta
NamesRecord ==
    /\ LetDone /\ RootPat.kind = "PatObject" /\ RootPat.ident.named
    /\ MetaOf(PatQuery.meta, RootPat.ident.path).some
    /\ RecordMeta.kind \in {"Struct", "StructVariant"}
    /\ RecordMeta.fields.some

\* The fields of the root pattern whose key is no field of the record.
NotFields ==
    { i \in DOMAIN RootPat.fields :
        KeyName(RootPat, i) \notin RecordMeta.fields.names }

LitObjectNotField(i) ==
    [kind |-> "LitObjectNotField", span |-> FieldSpan(RootPat, i),
     field |-> KeyName(RootPat, i), item |-> RecordMeta.item]

\* An anonymous object pattern is matched with TypeCheck::Object and its keys
\* are not validated.
AnonymousObject ==
    LetDone /\ RootPat.kind = "PatObject" /\ ~RootPat.ident.named =>
      /\ compiler.error.kind = "LitObjectNotField"
           => \E sub \in SubPats(RootPat) : ~IsLeaf(sub)
      /\ Len(compiler.asm.insts) >= 3 =>
           /\ compiler.asm.insts[3].op = "MatchObject"
           /\ compiler.asm.insts[3].type_check = TypeCheck("Object")

\* C14 as stated: an object pattern that names a typed record compiles only
\* if every key is a field of the record, and fails with LitObjectNotField
\* for the first key in pattern order that is none, open or not; an
\* anonymous object pattern gets TypeCheck::Object and no validation.
C14_LitObjectNotField ==
    /\ NamesRecord =>
         /\ ~Failed(compiler) => NotFields = {}
         /\ NotFields # {} =>
              compiler.error = LitObjectNotField(Min(NotFields))
    /\ AnonymousObject

\* C14, amended: the same for the patterns without a repeated key; with one,
\* DuplicateObjectKey is the error, whether the keys are fields or not.
C14_LitObjectNotFieldUnlessDuplicate ==
    /\ NamesRecord =>
         /\ ~Failed(compiler) => NotFields = {}
         /\ NotFields # {} /\ Repeats(RootPat) = {} =>
              compiler.error = LitObjectNotField(Min(NotFields))
         /\ Repeats(RootPat) # {} =>
              compiler.error.kind = "DuplicateObjectKey"
         /\ NotFields = {} /\ (\A sub \in SubPats(RootPat) : IsLeaf(sub)) =>
              compiler.error.kind # "LitObjectNotField"
    /\ AnonymousObject

\* An open pattern of struct S {a, b} with the keys a, c, d has failed with
\* LitObjectNotField for c.
C14_Witness ==
    /\ NamesRecord /\ RootPat.ident = Named(<<"S">>) /\ RootPat.open_pattern
    /\ Len(RootPat.fields) = 3
    /\ KeyName(RootPat, 1) = "a" /\ KeyName(RootPat, 2) = "c"
    /\ KeyName(RootPat, 3) = "d"
    /\ compiler.error = LitObjectNotField(2)

\* The root pattern is a tuple pattern; with a path, TupleLookup is what the
\* path resolves to and TupleMeta the meta, if any.
RootTuple == LetDone /\ RootPat.kind = "PatTuple"
TupleLookup == LookupMeta(PatCompiler, RootPat.path.path)
TupleMeta == TupleLookup.meta
NamesTuple ==
    /\ RootTuple /\ RootPat.path.some
    /\ TupleLookup.ret = "Some"
    /\ TupleMeta.kind \in {"Tuple", "TupleVariant"}

\* The match of the root pattern, when emitted, follows the scrutinee
\* expression and the copy of the anonymous slot.
RootMatch == compiler.asm.insts[3]
RootMatched(op) ==
    /\ Len(compiler.asm.insts) >= 3
    /\ compiler.asm.insts[2].op = "Copy"
    /\ RootMatch.op = op

\* C15: a tuple pattern whose path resolves to a tuple meta of arity args,
\* with count items, passes exactly when args = count, or count < args and
\* the pattern is open; else it fails with UnsupportedArgumentCount
\* {expected: args, actual: count}. Without a path there is no arity check.
C15_TupleArity ==
    /\ NamesTuple =>
         LET args == TupleMeta.args
             count == Len(RootPat.items)
         IN IF args = count \/ (count < args /\ RootPat.open_pattern)
            THEN RootMatched("MatchSequence") /\ RootMatch.len = count
            ELSE /\ compiler.error =
                      [kind |-> "UnsupportedArgumentCount",
                       meta |-> TupleMeta, expected |-> args,
                       actual |-> count]
                 /\ compiler.asm.insts = <<[op |-> "Expr"]>>
    /\ RootTuple /\ ~RootPat.path.some =>
         /\ RootMatched("MatchSequence")
         /\ RootMatch.len = Len(RootPat.items)
         /\ compiler.error.kind = "UnsupportedArgumentCount"
              => \E sub \in SubPats(RootPat) : ~IsLeaf(sub)

\* An open pattern with two items of the variant E::B of arity 1 has failed.
C15_Witness ==
    /\ NamesTuple
    /\ RootPat.path.path = <<"E", "B">> /\ RootPat.open_pattern
    /\ Len(RootPat.items) = 2
    /\ compiler.error.kind = "UnsupportedArgumentCount"
    /\ compiler.error.expected = 1 /\ compiler.error.actual = 2

\* C16: the type check of the MatchSequence of a tuple pattern is Tuple
\* without a path; with a path it is the check the Context provides for the
\* item of the tuple when it provides one, else Type(hash) for a tuple meta
\* and Variant(hash) for a tuple variant meta. A path resolving to any other
\* kind of meta fails with UnsupportedMetaPattern, and an unresolved path
\* with UnsupportedPattern.
C16_TupleTypeCheck ==
    /\ (RootTuple /\ ~RootPat.path.some) =>
         /\ RootMatched("MatchSequence")
         /\ RootMatch.type_check = TypeCheck("Tuple")
    /\ (RootTuple /\ RootPat.path.some /\ TupleLookup.ret = "None") =>
         /\ compiler.error = [kind |-> "UnsupportedPattern"]
         /\ InstsOf({"MatchSequence"}) = {}
    /\ (RootTuple /\ RootPat.path.some /\ TupleLookup.ret = "Some"
          /\ TupleMeta.kind \notin {"Tuple", "TupleVariant"}) =>
         /\ compiler.error =
              [kind |-> "UnsupportedMetaPattern", meta |-> TupleMeta]
         /\ InstsOf({"MatchSequence"}) = {}
    /\ (NamesTuple /\ RootMatched("MatchSequence")) =>
         LET provided == TypeCheckFor(PatContext, TupleMeta.item)
         IN RootMatch.type_check =
              IF provided.some THEN provided.type_check
              ELSE IF TupleMeta.kind = "Tuple"
              THEN TypeCheckType(TupleMeta.type_of.hash)
              ELSE TypeCheckVariant(TupleMeta.type_of.hash)

\* A tuple pattern `Some(_)`, whose check is the one the Context provides
\* and not the variant check of its meta.
C16_Witness ==
    /\ NamesTuple /\ RootPat.path.path = <<"Some">>
    /\ RootMatched("MatchSequence")
    /\ RootMatch.type_check = [tc |-> "Option", variant |-> 0]
    /\ RootMatch.type_check # TypeCheckVariant(TupleMeta.type_of.hash)

\* The slot of the root pattern: the first above the slots of the function.
RootOffset == PatCompiler.scopes.total_var_count

\* The instructions that load an item of the value in the slot, and the
\* items they load.
ItemLoads(offset) ==
    { i \in InstsOf({"TupleIndexGetAt"}) : compiler.asm.insts[i].offset = offset }
LoadedItems(offset) ==
    { compiler.asm.insts[i].index : i \in ItemLoads(offset) }

RootVec == LetDone /\ RootPat.kind = "PatVec"

\* C17: a vec pattern with n sub-patterns binds the scrutinee to one anonymous
\* slot, emits MatchSequence {Vec, len n, exact iff the pattern has no `..`}
\* and one mismatch branch, then compiles the sub-patterns in source order,
\* the i-th loaded with TupleIndexGetAt {offset, index i} from that slot; the
\* scrutinee itself is loaded once. (A sub-pattern `_` emits nothing, its
\* load included.)
C17_PatVec ==
    RootVec =>
      LET insts == compiler.asm.insts
          n == Len(RootPat.items)
      IN /\ Len(insts) >= 4
         /\ insts[1] = [op |-> "Expr"]
         /\ insts[2] = [op |-> "Copy", offset |-> RootOffset]
         /\ insts[3] = [op |-> "MatchSequence", type_check |-> TypeCheck("Vec"),
                        len |-> n, exact |-> ~RootPat.open_pattern]
         /\ insts[4].op = "PopAndJumpIfNot"
         /\ insts[4].label = call.false_label
         \* the scrutinee is loaded once, into a slot that has no name
         /\ InstsOf({"Expr"}) = {1}
         /\ { i \in InstsOf({"Copy"}) : insts[i].offset = RootOffset } = {2}
         /\ \A i \in DOMAIN compiler.scope.locals :
              compiler.scope.locals[i].offset # RootOffset
         /\ (~Failed(compiler) /\ \A i \in 1..n : IsLeaf(RootPat.items[i])) =>
              compiler.scope.local_var_count
                = Len(compiler.scope.locals) + 1
         \* the items are loaded by their index, in source order
         /\ \A i, j \in ItemLoads(RootOffset) :
              i < j => insts[i].index < insts[j].index
         /\ LoadedItems(RootOffset) \subseteq 0..(n - 1)
         /\ ~Failed(compiler) =>
              LoadedItems(RootOffset)
                = { i - 1 : i \in { j \in 1..n :
                                      RootPat.items[j].kind # "PatIgnore" } }

\* `[1, x, ..]`: an open vec pattern of two items, loaded in their order.
C17_Witness ==
    /\ RootVec /\ ~Failed(compiler)
    /\ RootPat.open_pattern /\ Len(RootPat.items) = 2
    /\ RootMatch = [op |-> "MatchSequence", type_check |-> TypeCheck("Vec"),
                    len |-> 2, exact |-> FALSE]
    /\ Cardinality(ItemLoads(RootOffset)) = 2
    /\ LoadedItems(RootOffset) = {0, 1}

\* The path patterns checked: the root pattern, whose scrutinee is on the
\* stack, and the one item of a root vec pattern, loaded from its slot.
RootPath == LetDone /\ RootPat.kind = "PatPath"
ItemPath ==
    /\ RootVec /\ Len(RootPat.items) = 1
    /\ RootPat.items[1].kind = "PatPath"

\* What the path resolves to: a zero-arity tuple or tuple variant or not, and
\* the type check of such a meta.
ZeroArity(l) ==
    /\ l.ret = "Some"
    /\ l.meta.kind \in {"Tuple", "TupleVariant"} /\ l.meta.args = 0
MetaTypeCheck(meta) ==
    LET provided == TypeCheckFor(PatContext, meta.item)
    IN IF provided.some THEN provided.type_check
       ELSE IF meta.kind = "Tuple" THEN TypeCheckType(meta.type_of.hash)
       ELSE TypeCheckVariant(meta.type_of.hash)

\* The code of the path pattern `path` is the instructions from `first` on:
\* `loads` are those of its load, `slot` is the next free slot.
PathCode(path, first, loads, slot) ==
    LET insts == compiler.asm.insts
        l == LookupMeta(PatCompiler, path)
        n == first + Len(loads)
        loaded == \A i \in DOMAIN loads :
                    /\ Len(insts) >= first + i - 1
                    /\ insts[first + i - 1] = loads[i]
    IN IF ZeroArity(l)
       THEN /\ ~Failed(compiler) /\ loaded
            /\ Len(insts) = n + 2
            /\ insts[n] = [op |-> "MatchSequence",
                           type_check |-> MetaTypeCheck(l.meta),
                           len |-> 0, exact |-> TRUE]
            /\ insts[n + 1].op = "PopAndJumpIfNot"
            /\ insts[n + 1].label = call.false_label
            /\ compiler.scope.locals = <<>>
       ELSE IF Len(path) = 1
       THEN /\ ~Failed(compiler) /\ loaded
            /\ Len(insts) = n
            /\ compiler.scope.locals =
                 <<[name |-> path[1], offset |-> slot]>>
            /\ InstsOf({"PopAndJumpIfNot"}) \subseteq 1..(first - 1)
       ELSE /\ compiler.error = [kind |-> "UnsupportedBinding"]
            /\ compiler.scope.locals = <<>>
            /\ Len(insts) = first - 1

\* C18: a path pattern that resolves to a zero-arity Tuple or TupleVariant
\* meta emits its load, MatchSequence {len 0, exact} with the type check of
\* the meta (Type, Variant, or the one of the Context) and one branch to
\* false_label, declares no local and returns true. In every other case a
\* path of one identifier is loaded and declared as a local, with no jump
\* and false returned; a path of several components fails with
\* UnsupportedBinding.
C18_PatPath ==
    /\ RootPath =>
         /\ PathCode(RootPat.path, 2, <<>>, RootOffset)
         /\ ~Failed(compiler) =>
              call.used = ZeroArity(LookupMeta(PatCompiler, RootPat.path))
    /\ ItemPath =>
         PathCode(RootPat.items[1].path, 5,
                  <<LoadTupleIndexGetAt(RootOffset, 0)>>, RootOffset + 1)

\* `[None]`: the item is loaded from the slot of the vec and matched against
\* the check the Context provides, with one branch and no local.
C18_Witness ==
    /\ ItemPath /\ RootPat.items[1].path = <<"None">>
    /\ compiler.asm.insts[5] = LoadTupleIndexGetAt(RootOffset, 0)
    /\ compiler.asm.insts[6] =
         [op |-> "MatchSequence",
          type_check |-> [tc |-> "Option", variant |-> 1],
          len |-> 0, exact |-> TRUE]
    /\ compiler.asm.insts[7].op = "PopAndJumpIfNot"
    /\ compiler.scope.locals = <<>>

\* The pattern holds a float literal; the first pattern that compile_pat
\* reaches without sub-patterns is a float literal, and the patterns above it.
RECURSIVE HasFloat(_)
HasFloat(pat) == IsFloat(pat) \/ \E sub \in SubPats(pat) : HasFloat(sub)

FirstSub(pat) ==
    IF pat.kind = "PatObject" THEN pat.fields[1].binding.pat ELSE pat.items[1]
HasFirstSub(pat) ==
    \/ pat.kind \in {"PatVec", "PatTuple"} /\ Len(pat.items) >= 1
    \/ /\ pat.kind = "PatObject" /\ Len(pat.fields) >= 1
       /\ pat.fields[1].binding.some

RECURSIVE FloatFirst(_)
FloatFirst(pat) ==
    IsFloat(pat) \/ (HasFirstSub(pat) /\ FloatFirst(FirstSub(pat)))

RECURSIVE FloatDepth(_)
FloatDepth(pat) == IF IsFloat(pat) THEN 0 ELSE 1 + FloatDepth(FirstSub(pat))

\* The instructions that load a sub-pattern, and those that compare a literal.
SubLoads == InstsOf({"TupleIndexGetAt", "ObjectSlotIndexGetAt"})
Comparisons ==
    InstsOf({"IsUnit", "EqByte", "EqCharacter", "EqInteger", "EqFloat",
             "EqStaticString"})

\* The errors of a tuple or object pattern itself, which is compiled before
\* its sub-patterns: its checks, and the lookup of its path.
HeadErrors ==
    (CheckErrors \ {"MatchFloatInPattern"})
      \cup {"UnsupportedPattern", "UnsupportedMetaPattern", "MissingType",
            "QueryError"}

\* C19: a float literal in a pattern fails with MatchFloatInPattern at any
\* depth, and neither a load nor a comparison is emitted for it: the code
\* ends with the branch of the pattern that holds it. An integer literal
\* emits its load, EqInteger and one branch to false_label.
C19_MatchFloatInPattern ==
    /\ (LetDone /\ HasFloat(RootPat)) => Failed(compiler)
    /\ (LetDone /\ FloatFirst(RootPat)
          /\ compiler.error.kind \notin HeadErrors) =>
         LET insts == compiler.asm.insts
         IN /\ compiler.error = [kind |-> "MatchFloatInPattern"]
            /\ Comparisons = {}
            /\ Cardinality(SubLoads) =
                 (IF IsFloat(RootPat) THEN 0 ELSE FloatDepth(RootPat) - 1)
            /\ insts[Len(insts)].op =
                 (IF IsFloat(RootPat) THEN "Expr" ELSE "PopAndJumpIfNot")
            /\ Cardinality(InstsOf({"PopAndJumpIfNot"})) = FloatDepth(RootPat)
    /\ (LetDone /\ RootPat.kind = "PatNumber" /\ ~IsFloat(RootPat)) =>
         /\ Len(compiler.asm.insts) = 4
         /\ compiler.asm.insts[2] =
              [op |-> "EqInteger", integer |-> RootPat.number.value]
         /\ compiler.asm.insts[3].op = "PopAndJumpIfNot"
         /\ compiler.asm.insts[3].label = call.false_label
    /\ (RootVec /\ Len(RootPat.items) = 1
          /\ RootPat.items[1].kind = "PatNumber"
          /\ ~IsFloat(RootPat.items[1])) =>
         /\ Len(compiler.asm.insts) = 8
         /\ compiler.asm.insts[5] = LoadTupleIndexGetAt(RootOffset, 0)
         /\ compiler.asm.insts[6] =
              [op |-> "EqInteger", integer |-> RootPat.items[1].number.value]
         /\ compiler.asm.insts[7].op = "PopAndJumpIfNot"
         /\ compiler.asm.insts[7].label = call.false_label

\* `[[1.0]]`, or the same with a tuple or an object pattern: the float is
\* rejected two patterns deep, after one load, the one of the inner pattern.
C19_Witness ==
    /\ LetDone /\ FloatFirst(RootPat) /\ FloatDepth(RootPat) = 2
    /\ compiler.error = [kind |-> "MatchFloatInPattern"]
    /\ Cardinality(SubLoads) = 1
    /\ Comparisons = {}

\* compile_meta has returned, called for a value.
MetaDone == call.fn = "compile_meta" /\ call.state = "returned"
ValueDone == MetaDone /\ call.needs = "Value"
IsTupleMeta(meta) == meta.kind \in {"Tuple", "TupleVariant"}

\* C20: compile_meta with Needs::Value emits exactly one instruction, chosen
\* by the kind of the meta: Call {hash: tuple.hash, args: 0} for a Tuple or
\* TupleVariant of arity 0, Fn {hash: tuple.hash} for one of arity > 0,
\* Fn {hash: type_of} for a Function; for every other kind it fails with
\* UnsupportedValue and emits nothing.
C20_CompileMetaValue ==
    ValueDone =>
      LET meta == call.meta
          insts == compiler.asm.insts
      IN IF IsTupleMeta(meta) /\ meta.args = 0
         THEN /\ ~Failed(compiler)
              /\ insts = <<[op |-> "Call", hash |-> HashOf("tuple", meta.item),
                            args |-> 0]>>
         ELSE IF IsTupleMeta(meta)
         THEN /\ ~Failed(compiler)
              /\ insts = <<[op |-> "Fn", hash |-> HashOf("tuple", meta.item)]>>
         ELSE IF meta.kind = "Function"
         THEN /\ ~Failed(compiler)
              /\ insts = <<[op |-> "Fn", hash |-> HashOf("type", meta.item)]>>
         ELSE /\ compiler.error =
                   [kind |-> "UnsupportedValue", meta |-> meta]
              /\ insts = <<>>

\* The value of the tuple struct Pair, of arity 2, is its constructor.
C20_Witness ==
    /\ ValueDone /\ call.meta.kind = "Tuple" /\ call.meta.args = 2
    /\ compiler.asm.insts =
         <<[op |-> "Fn", hash |-> HashOf("tuple", <<"Pair">>)]>>

TypeDone == MetaDone /\ call.needs = "Type"

\* C21: compile_meta with Needs::Type emits exactly one instruction,
\* Type {hash} with the type_of of the meta, and fails with UnsupportedType,
\* nothing emitted, when the meta has no type_of.
C21_CompileMetaType ==
    TypeDone =>
      IF call.meta.type_of.some
      THEN /\ ~Failed(compiler)
           /\ compiler.asm.insts =
                <<[op |-> "Type", hash |-> HashOf("type", call.meta.item)]>>
      ELSE /\ compiler.error =
                [kind |-> "UnsupportedType", meta |-> call.meta]
           /\ compiler.asm.insts = <<>>

\* The type of the struct S, which has no value: one Type instruction.
C21_Witness ==
    /\ TypeDone /\ call.meta.kind = "Struct"
    /\ compiler.asm.insts =
         <<[op |-> "Type", hash |-> HashOf("type", <<"S">>)]>>

\* The instructions that leave a value or a type descriptor on the stack.
Producers == InstsOf({"Call", "Fn", "Type"})

\* C22: compile_meta respects the Needs hint: with Needs::None it emits no
\* instruction that leaves a value or a type descriptor on the stack.
C22_NeedsNone ==
    (MetaDone /\ call.needs = "None") => Producers = {}

\* -------------------------------------------------------------- SpecClean
MaxScopes == 2       \* scopes on the stack when clean_last_scope is called
MaxLocals == 3       \* slots declared in one scope

\* Needs::value
NeedsValue(needs) == needs \in {"Type", "Value"}

\* A faulty variant: one local is popped with PopN
LocalsPopN(c, total_var_count) ==
    IF total_var_count = 0 THEN c
    ELSE Push(c, [op |-> "PopN", count |-> total_var_count])

\* Compiler::locals_pop
LocalsPop(c, total_var_count) ==
    IF total_var_count = 0 THEN c
    ELSE IF total_var_count = 1 THEN Push(c, [op |-> "Pop"])
    ELSE Push(c, [op |-> "PopN", count |-> total_var_count])

\* Compiler::locals_clean
LocalsClean(c, total_var_count) ==
    IF total_var_count = 0 THEN c
    ELSE Push(c, [op |-> "Clean", count |-> total_var_count])

\* Scopes::pop(expected, span): the ScopeGuard a push returns is the number
\* of scopes it leaves; pop fails unless that many are on the stack, and
\* else takes the last one off.
ScopesPop(c, expected) ==
    IF Len(c.scopes) = 0 \/ Len(c.scopes) # expected
    THEN [c |-> Fail(c, [kind |-> "Internal"]),
          scope |-> ChildScope([total_var_count |-> 0])]
    ELSE [c |-> [c EXCEPT !.scopes = SubSeq(@, 1, Len(@) - 1)],
          scope |-> c.scopes[Len(c.scopes)]]

\* clean_last_scope after `self.scopes.pop(expected, span)?`, `p` what it
\* has returned.
CleanPopped(p, needs) ==
    IF Failed(p.c) THEN p.c
    ELSE IF NeedsValue(needs)
    THEN LocalsClean(p.c, p.scope.local_var_count)
    ELSE LocalsPop(p.c, p.scope.local_var_count)

\* Compiler::clean_last_scope
CleanLastScope(c, expected, needs) ==
    CleanPopped(ScopesPop(c, expected), needs)

\* The stack of scopes that declare the numbers of slots `counts`, each
\* scope above the slots of those under it.
RECURSIVE SlotsUnder(_, _)
SlotsUnder(counts, n) ==
    IF n = 0 THEN 0 ELSE SlotsUnder(counts, n - 1) + counts[n]
ScopeStack(counts) ==
    [i \in DOMAIN counts |->
       [locals |-> <<>>, local_var_count |-> counts[i],
        total_var_count |-> SlotsUnder(counts, i)]]

\* The Compiler at the end of a block: Scopes is the stack of its scopes.
ScopesCompiler(scopes) == [PatCompiler EXCEPT !.scopes = scopes]

\* clean_last_scope is called with a guard and a need, on up to MaxScopes
\* scopes of up to MaxLocals slots each.
InitClean ==
    /\ \E m \in 1..MaxScopes : \E counts \in [1..m -> 0..MaxLocals] :
       \E expected \in 0..MaxScopes, needs \in Needs :
         /\ compiler = ScopesCompiler(ScopeStack(counts))
         /\ call = [fn |-> "clean_last_scope", state |-> "called",
                    expected |-> expected, needs |-> needs,
                    compiler0 |-> compiler]
    /\ pc = "idle" /\ sources = <<>> /\ queue = <<>> /\ qqueue = <<>>
    /\ unit = [functions |-> {}, imports |-> <<>>, names |-> EmptyNames]
    /\ context = EmptyNames /\ result = Running /\ hist = <<>>

CallCleanLastScope ==
    /\ call.fn = "clean_last_scope" /\ call.state = "called"
    /\ compiler' = CleanLastScope(compiler, call.expected, call.needs)
    /\ call' = [call EXCEPT !.state = "returned"]
    /\ UNCHANGED pipeVars

NextClean == CallCleanLastScope

SpecClean == InitClean /\ [][NextClean]_vars

\* clean_last_scope has returned; the scopes it was called on, and the
\* slots of the last of them.
CleanDone == call.fn = "clean_last_scope" /\ call.state = "returned"
Scopes0 == call.compiler0.scopes
LastCount == Scopes0[Len(Scopes0)].local_var_count

\* C23: clean_last_scope pops the scope the guard expects and emits the
\* cleanup of the n slots of that scope alone: Clean {count: n} when a value
\* or a type is needed; Pop for n = 1 and PopN {count: n} for n >= 2 when
\* nothing is; nothing for n = 0.
C23_CleanLastScope ==
    /\ (CleanDone /\ call.expected = Len(Scopes0)) =>
         /\ ~Failed(compiler)
         /\ compiler.scopes = SubSeq(Scopes0, 1, Len(Scopes0) - 1)
         /\ compiler.asm.insts =
              IF LastCount = 0 THEN <<>>
              ELSE IF call.needs \in {"Value", "Type"}
              THEN <<[op |-> "Clean", count |-> LastCount]>>
              ELSE IF LastCount = 1 THEN <<[op |-> "Pop"]>>
              ELSE <<[op |-> "PopN", count |-> LastCount]>>
    /\ (CleanDone /\ call.expected # Len(Scopes0)) =>
         /\ Failed(compiler)
         /\ compiler.scopes = Scopes0 /\ compiler.asm.insts = <<>>

\* The inner of two scopes, of one slot, is left with nothing needed: one
\* Pop, whatever the slots of the outer scope.
C23_Witness ==
    /\ CleanDone /\ Len(Scopes0) = 2 /\ call.expected = 2
    /\ call.needs = "None" /\ LastCount = 1
    /\ Scopes0[1].local_var_count = 2
    /\ compiler.asm.insts = <<[op |-> "Pop"]>>
    /\ Len(compiler.scopes) = 1

\* -------------------------------------------------------------- SpecEntry
MaxArgs == 2         \* declared arguments of a function or closure
MaxCaptures == 2     \* variables a closure or an async block captures

\* ast::FnArg: self, `_`, or an identifier; the identifier "?" is one that
\* does not resolve.
FnArgs ==
    { [kind |-> "Self_"], [kind |-> "Ignore"],
      [kind |-> "Ident", ident |-> "x"], [kind |-> "Ident", ident |-> "?"] }

\* format_fn_args: the names of the arguments, or the error of a resolve.
RECURSIVE FormatFnArgs(_)
FormatFnArgs(arguments) ==
    IF arguments = <<>> THEN [ok |-> TRUE, args |-> <<>>]
    ELSE LET arg == Last(arguments)
             init == FormatFnArgs(SubSeq(arguments, 1, Len(arguments) - 1))
         IN IF ~init.ok THEN init
            ELSE IF arg.kind = "Self_"
            THEN [ok |-> TRUE, args |-> Append(init.args, "self")]
            ELSE IF arg.kind = "Ignore"
            THEN [ok |-> TRUE, args |-> Append(init.args, "_")]
            ELSE IF arg.ident = "?"
            THEN [ok |-> FALSE, args |-> <<>>]
            ELSE [ok |-> TRUE, args |-> Append(init.args, arg.ident)]

\* Build: the kind, the declared arguments, the number of captures, and for
\* an instance function the item of its impl.
Build(kind, args, captures, impl_item) ==
    [kind |-> kind, args |-> args, captures |-> captures,
     impl_item |-> impl_item]

\* BuildEntry
BuildEntry(item, build, source_id) ==
    [item |-> item, build |-> build, source_id |-> source_id]

\* What the source declares besides the items of PatQuery: a macro, which
\* has no type.
EntryQuery ==
    [PatQuery EXCEPT
       !.meta = @ \cup { Meta("Macro", <<"mac">>, 0, UnknownFields, "query") }]

\* UnitBuilder::new_assembly, Scopes::new
NewAssembly == [insts |-> <<>>, labels |-> 0, bound |-> <<>>]
ScopesNew ==
    <<[locals |-> <<>>, local_var_count |-> 0, total_var_count |-> 0]>>

\* let mut compiler = Compiler { .. }
NewCompiler(entry, u) ==
    [items |-> entry.item,
     context |-> PatContext,
     query |-> EntryQuery,
     visited |-> <<>>,
     asm |-> NewAssembly,
     unit |-> [static_strings |-> <<>>, static_object_keys |-> <<>>],
     scopes |-> ScopesNew,
     contexts |-> <<>>,
     error |-> NoError]

\* compiler.contexts.push(span); compiler.compile(..)?: the body appends its
\* code to the Assembly, or fails.
CompileBody(c, ok) ==
    IF Failed(c) THEN c
    ELSE IF ok
    THEN Push([c EXCEPT !.contexts = Append(@, "span")], [op |-> "Body"])
    ELSE Fail([c EXCEPT !.contexts = Append(@, "span")],
              [kind |-> "BodyError"])

\* UnitBuilder::new_function and new_instance_function: the function the
\* unit gets.
UnitFunction(entry, count, asm, args, instance) ==
    [item |-> entry.item, source_id |-> entry.source_id, count |-> count,
     asm |-> asm, args |-> args, instance |-> instance]

\* What compile_entry leaves: its Compiler and the unit.
Compiled(c, u) == [c |-> c, unit |-> u]

\* A faulty variant: the function is registered although the body failed
NewFunctionAfterBodyAlways(c, u, entry, count, args, instance, ok) ==
    IF ~ok THEN Compiled(Fail(c, [kind |-> "FunctionConflict"]), u)
    ELSE Compiled(c, [u EXCEPT !.functions =
                        @ \cup {UnitFunction(entry, count, c.asm, args,
                                             instance)}])

\* compile(..)?; unit.borrow_mut().new_function(..)?, `c` the Compiler after
\* the body, `ok` whether the unit takes the function.
NewFunctionAfterBody(c, u, entry, count, args, instance, ok) ==
    IF Failed(c) THEN Compiled(c, u)
    ELSE IF ~ok THEN Compiled(Fail(c, [kind |-> "FunctionConflict"]), u)
    ELSE Compiled(c, [u EXCEPT !.functions =
                        @ \cup {UnitFunction(entry, count, c.asm, args,
                                             instance)}])

\* Build::Function and Build::Closure, `f` what format_fn_args has returned.
CompileEntryFunction(c, u, entry, f, outcome) ==
    IF ~f.ok THEN Compiled(Fail(c, [kind |-> "ResolveError"]), u)
    ELSE NewFunctionAfterBody(CompileBody(c, outcome.body), u, entry,
                              Len(entry.build.args), f.args,
                              [some |-> FALSE], outcome.register)

\* Build::InstanceFunction after lookup_meta(&f.impl_item, ..), `l` what it
\* has returned.
CompileEntryInstance(l, u, entry, f, outcome) ==
    IF l.ret = "Err" THEN Compiled(Fail(l.compiler, QueryError), u)
    ELSE IF l.ret = "None"
    THEN Compiled(Fail(l.compiler, [kind |-> "MissingType",
                                    item |-> entry.build.impl_item]), u)
    ELSE IF ~l.meta.type_of.some
    THEN Compiled(Fail(l.compiler, [kind |-> "UnsupportedInstanceFunction",
                                    meta |-> l.meta]), u)
    ELSE NewFunctionAfterBody(CompileBody(l.compiler, outcome.body), u, entry,
                              Len(entry.build.args), f.args,
                              [some |-> TRUE, type_of |-> l.meta.type_of.hash],
                              outcome.register)

\* Build::AsyncBlock
CompileEntryAsyncBlock(c, u, entry, outcome) ==
    NewFunctionAfterBody(CompileBody(c, outcome.body), u, entry,
                         entry.build.captures, <<>>, [some |-> FALSE],
                         outcome.register)

\* compile_entry: `outcome` tells whether the body compiles and whether the
\* unit takes the function.
CompileEntryBuild(c, u, entry, outcome) ==
    CASE entry.build.kind \in {"Function", "Closure"} ->
           CompileEntryFunction(c, u, entry, FormatFnArgs(entry.build.args),
                                outcome)
      [] entry.build.kind = "InstanceFunction" ->
           IF ~FormatFnArgs(entry.build.args).ok
           THEN Compiled(Fail(c, [kind |-> "ResolveError"]), u)
           ELSE CompileEntryInstance(LookupMeta(c, entry.build.impl_item), u,
                                     entry, FormatFnArgs(entry.build.args),
                                     outcome)
      [] entry.build.kind = "AsyncBlock" ->
           CompileEntryAsyncBlock(c, u, entry, outcome)

\* The argument lists of up to n arguments.
ArgLists(n) == UNION { [1..m -> FnArgs] : m \in 0..n }

\* The items an impl can name: a struct, a macro, nothing.
ImplItems == { <<"S">>, <<"mac">>, <<"Nope">> }

\* The builds of the entries.
Builds ==
    { Build("Function", args, 0, <<>>) : args \in ArgLists(MaxArgs) }
    \cup { Build("InstanceFunction", args, 0, impl) :
             args \in ArgLists(MaxArgs), impl \in ImplItems }
    \cup { Build("Closure", args, n, <<>>) :
             args \in ArgLists(MaxArgs), n \in 0..MaxCaptures }
    \cup { Build("AsyncBlock", <<>>, n, <<>>) : n \in 0..MaxCaptures }

\* The compiler a former entry has left, and the function of that entry.
UsedCompiler == CompileExpr(PatCompiler)
FormerFunction ==
    UnitFunction(BuildEntry(<<"main">>, Build("Function", <<>>, 0, <<>>), 0),
                 0, [NewAssembly EXCEPT !.insts = <<[op |-> "Body"]>>], <<>>,
                 [some |-> FALSE])

\* compile_entry is called with an entry, first or after another one.
InitEntry ==
    /\ \E build \in Builds, body \in BOOLEAN, register \in BOOLEAN :
         call = [fn |-> "compile_entry", state |-> "called",
                 entry |-> BuildEntry(<<"S", "m">>, build, 1),
                 outcome |-> [body |-> body, register |-> register]]
    /\ \E former \in BOOLEAN :
         /\ compiler = IF former THEN UsedCompiler ELSE IdleCompiler
         /\ unit = [functions |-> IF former THEN {FormerFunction} ELSE {},
                    imports |-> <<>>, names |-> EmptyNames]
    /\ pc = "idle" /\ sources = <<>> /\ queue = <<>> /\ qqueue = <<>>
    /\ context = EmptyNames /\ result = Running
    /\ hist = [unit0 |-> unit]

CallCompileEntry ==
    /\ call.fn = "compile_entry" /\ call.state = "called"
    /\ compiler' = CompileEntryBuild(NewCompiler(call.entry, unit), unit,
                                     call.entry, call.outcome).c
    /\ unit' = CompileEntryBuild(NewCompiler(call.entry, unit), unit,
                                 call.entry, call.outcome).unit
    /\ call' = [call EXCEPT !.state = "returned"]
    /\ UNCHANGED <<pc, sources, queue, qqueue, context, result, hist>>

NextEntry == CallCompileEntry

SpecEntry == InitEntry /\ [][NextEntry]_vars

\* compile_entry has returned; the functions it has added to the unit.
EntryDone == call.fn = "compile_entry" /\ call.state = "returned"
Registered == unit.functions \ hist.unit0.functions

\* C24: compile_entry works on a fresh Assembly and fresh Scopes for each
\* entry; when it succeeds it has registered exactly one function, for the
\* item of the entry, after the body compiled without error, and a failing
\* entry registers none. The arity registered is the number of declared
\* arguments for Function, InstanceFunction and Closure, and the number of
\* captures, with no argument names, for AsyncBlock.
C24_CompileEntry ==
    EntryDone =>
      LET build == call.entry.build IN
      /\ hist.unit0.functions \subseteq unit.functions
      /\ compiler.asm.insts \in {<<>>, <<[op |-> "Body"]>>}
      /\ compiler.scopes = ScopesNew
      /\ Failed(compiler) => Registered = {}
      /\ ~Failed(compiler) =>
           /\ call.outcome.body
           /\ Cardinality(Registered) = 1
           /\ \A f \in Registered :
                /\ f.item = call.entry.item
                /\ f.asm = [NewAssembly EXCEPT !.insts = <<[op |-> "Body"]>>]
                /\ IF build.kind = "AsyncBlock"
                   THEN f.count = build.captures /\ f.args = <<>>
                   ELSE /\ f.count = Len(build.args)
                        /\ Len(f.args) = Len(build.args)

\* A closure of one argument that captures two variables is registered with
\* arity 1, after the function of a former entry.
C24_Witness ==
    /\ EntryDone /\ ~Failed(compiler)
    /\ hist.unit0.functions # {}
    /\ call.entry.build.kind = "Closure"
    /\ call.entry.build.captures = 2 /\ Len(call.entry.build.args) = 1
    /\ \E f \in Registered : f.count = 1 /\ Len(f.args) = 1

\* -------------------------------------------------------------- SpecNames
MaxPathLen == 2      \* components of a path inserted or asked for
MaxInserts == 3      \* calls of Names::insert

\* The paths inserted and asked for.
NamePaths == ItemsUpTo(MaxPathLen)

\* Names::new(): `context` is the trie; hist keeps the paths inserted so
\* far and those inserted before the last call.
InitNames ==
    /\ context = EmptyNames
    /\ hist = [inserted |-> {}, before |-> {}, calls |-> 0]
    /\ call = IdleCall /\ compiler = IdleCompiler
    /\ pc = "idle" /\ sources = <<>> /\ queue = <<>> /\ qqueue = <<>>
    /\ unit = [functions |-> {}, imports |-> <<>>, names |-> EmptyNames]
    /\ result = Running

\* names.insert(path)
CallNamesInsert ==
    /\ hist.calls < MaxInserts
    /\ \E path \in NamePaths :
         /\ context' = NamesInsert(context, path)
         /\ call' = [fn |-> "Names::insert", state |-> "returned",
                     path |-> path, ret |-> NamesInsertReturn(context, path),
                     names0 |-> context]
         /\ hist' = [inserted |-> hist.inserted \cup {path},
                     before |-> hist.inserted, calls |-> hist.calls + 1]
    /\ UNCHANGED <<pc, sources, queue, qqueue, unit, result, compiler>>

NextNames == CallNamesInsert

SpecNames == InitNames /\ [][NextNames]_vars

InsertDone == call.fn = "Names::insert"

\* C25: Names::insert(p) returns whether p had been inserted before (false
\* the first time, true every later time), contains(p) is true after it, and
\* what insert and contains answer for any other path is what it was.
C25_NamesInsert ==
    InsertDone =>
      /\ call.ret = (call.path \in hist.before)
      /\ NamesContains(context, call.path)
      /\ NamesInsertReturn(context, call.path)
      /\ \A q \in NamePaths \ {call.path} :
           /\ NamesContains(context, q) = NamesContains(call.names0, q)
           /\ NamesInsertReturn(context, q)
                = NamesInsertReturn(call.names0, q)

\* <<a>> is inserted again after <<a, b>> was: true is returned, and <<a, b>>
\* is contained as before.
C25_Witness ==
    /\ InsertDone /\ call.path = <<"a">> /\ call.ret
    /\ hist.inserted = {<<"a">>, <<"a", "b">>}
    /\ NamesContains(context, <<"a", "b">>)
    /\ ~NamesContains(context, <<>>)

\* C26: after any inserts, contains(p) is true exactly when p was inserted,
\* and contains_prefix(p) exactly when p is a prefix of, or is, an inserted
\* path, or is the empty path, which even an empty trie has; contains(p)
\* implies contains_prefix(p), and both stay true under further inserts.
C26_ContainsAndPrefix ==
    /\ \A p \in NamePaths :
         /\ NamesContains(context, p) = (p \in hist.inserted)
         /\ NamesContainsPrefix(context, p) =
              (p = <<>> \/ \E q \in hist.inserted : p \in Prefixes(q))
         /\ NamesContains(context, p) => NamesContainsPrefix(context, p)
    /\ NamesContainsPrefix(EmptyNames, <<>>)
    /\ InsertDone =>
         \A p \in NamePaths :
           /\ NamesContains(call.names0, p) => NamesContains(context, p)
           /\ NamesContainsPrefix(call.names0, p)
                => NamesContainsPrefix(context, p)

\* Only <<a, b>> was inserted: its strict prefix <<a>> is a prefix that is
\* not contained.
C26_Witness ==
    /\ hist.inserted = {<<"a", "b">>}
    /\ NamesContainsPrefix(context, <<"a">>)
    /\ ~NamesContains(context, <<"a">>)
    /\ NamesContains(context, <<"a", "b">>)
    /\ ~NamesContainsPrefix(context, <<"b">>)

\* --------------------------------------------------------------- SpecFile
MaxTokens == 4       \* tokens of the file parsed

\* The tokens of a file, each standing for what the parser takes in one
\* parse: `#![..]`, `#[..]`, `pub`, an item that needs no semi-colon (`fn`),
\* one that needs it (`use`), `;`, and a token that starts none of these.
FileTokens == {"#![]", "#[]", "pub", "fn", "use", ";", "x"}

Peek(tokens, pos) == IF pos <= Len(tokens) THEN tokens[pos] ELSE "eof"

\* while parser.peek::<OuterAttribute>()? { attributes.push(parser.parse()?) }
RECURSIVE ParseOuterAttributes(_, _, _)
ParseOuterAttributes(tokens, pos, attributes) ==
    IF Peek(tokens, pos) = "#![]"
    THEN ParseOuterAttributes(tokens, pos + 1, Append(attributes, pos))
    ELSE [attributes |-> attributes, pos |-> pos]

\* parser.parse::<Vec<ast::Attribute>>(): the attributes that follow, each
\* known by its position.
RECURSIVE ParseAttributes(_, _, _)
ParseAttributes(tokens, pos, attributes) ==
    IF Peek(tokens, pos) = "#[]"
    THEN ParseAttributes(tokens, pos + 1, Append(attributes, pos))
    ELSE [attributes |-> attributes, pos |-> pos]

\* parser.parse::<ast::Visibility>(): `pub`, or nothing, which has no span.
ParseVisibility(tokens, pos) ==
    IF Peek(tokens, pos) = "pub"
    THEN [visibility |-> [some |-> TRUE, span |-> pos], pos |-> pos + 1]
    ELSE [visibility |-> [some |-> FALSE, span |-> 0], pos |-> pos]

\* ast::Item::peek_as_stmt
PeekAsStmt(tokens, pos) == Peek(tokens, pos) \in {"fn", "use"}

\* ast::Item::parse_with_meta: the item with the meta it is given.
ParseWithMeta(tokens, pos, item_attributes, item_visibility) ==
    [kind |-> tokens[pos], span |-> pos, attributes |-> item_attributes,
     visibility |-> item_visibility]

\* Item::needs_semi_colon
NeedsSemiColon(item) == item.kind = "use"

\* What File::parse returns: Ok(File) or the ParseError, with the position
\* the parser is left at.
FileOk(attributes, items, pos) ==
    [ok |-> TRUE, error |-> [kind |-> "none", span |-> 0],
     file |-> [attributes |-> attributes, items |-> items], pos |-> pos]
FileErr(kind, span) ==
    [ok |-> FALSE, error |-> [kind |-> kind, span |-> span],
     file |-> [attributes |-> <<>>, items |-> <<>>], pos |-> 0]

\* OptionSpanned::option_span of the attributes: from the first of them.
AttributesSpan(item_attributes) ==
    IF item_attributes = <<>> THEN [some |-> FALSE, span |-> 0]
    ELSE [some |-> TRUE, span |-> item_attributes[1]]

\* A faulty variant: the visibility is looked at before the attributes
FileParseEndVisibilityFirst(attributes, items, item_attributes, item_visibility, pos) ==
    IF item_visibility.some
    THEN FileErr("UnsupportedItemVisibility", item_visibility.span)
    ELSE IF AttributesSpan(item_attributes).some
    THEN FileErr("UnsupportedItemAttributes",
                 AttributesSpan(item_attributes).span)
    ELSE FileOk(attributes, items, pos)

\* File::parse after the loop: meta without items.
FileParseEnd(attributes, items, item_attributes, item_visibility, pos) ==
    IF AttributesSpan(item_attributes).some
    THEN FileErr("UnsupportedItemAttributes",
                 AttributesSpan(item_attributes).span)
    ELSE IF item_visibility.some
    THEN FileErr("UnsupportedItemVisibility", item_visibility.span)
    ELSE FileOk(attributes, items, pos)

\* while ast::Item::peek_as_stmt(parser)? { .. }, entered with the meta
\* `a` and `v` that parser.parse()? has returned, the parser being at v.pos.
RECURSIVE FileParseItems(_, _, _, _, _)
FileParseItems(tokens, attributes, items, a, v) ==
    IF ~PeekAsStmt(tokens, v.pos)
    THEN FileParseEnd(attributes, items, a.attributes, v.visibility, v.pos)
    ELSE IF NeedsSemiColon(ParseWithMeta(tokens, v.pos, a.attributes,
                                         v.visibility))
            /\ Peek(tokens, v.pos + 1) # ";"
    THEN FileErr("TokenMismatch", v.pos + 1)
    ELSE FileParseItems(
           tokens, attributes,
           Append(items,
                  [item |-> ParseWithMeta(tokens, v.pos, a.attributes,
                                          v.visibility),
                   semi_colon |-> Peek(tokens, v.pos + 1) = ";"]),
           ParseAttributes(
             tokens,
             IF Peek(tokens, v.pos + 1) = ";" THEN v.pos + 2 ELSE v.pos + 1,
             <<>>),
           ParseVisibility(
             tokens,
             ParseAttributes(
               tokens,
               IF Peek(tokens, v.pos + 1) = ";" THEN v.pos + 2 ELSE v.pos + 1,
               <<>>).pos))

\* <File as Parse>::parse
FileParse(tokens) ==
    FileParseItems(
      tokens, ParseOuterAttributes(tokens, 1, <<>>).attributes, <<>>,
      ParseAttributes(tokens, ParseOuterAttributes(tokens, 1, <<>>).pos, <<>>),
      ParseVisibility(
        tokens,
        ParseAttributes(tokens, ParseOuterAttributes(tokens, 1, <<>>).pos,
                        <<>>).pos))

\* File::parse is called on a file of up to MaxTokens tokens.
InitFile ==
    /\ \E n \in 0..MaxTokens : \E tokens \in [1..n -> FileTokens] :
         call = [fn |-> "File::parse", state |-> "called", tokens |-> tokens]
    /\ compiler = IdleCompiler
    /\ pc = "idle" /\ sources = <<>> /\ queue = <<>> /\ qqueue = <<>>
    /\ unit = [functions |-> {}, imports |-> <<>>, names |-> EmptyNames]
    /\ context = EmptyNames /\ result = Running /\ hist = <<>>

CallFileParse ==
    /\ call.fn = "File::parse" /\ call.state = "called"
    /\ call' = [call EXCEPT !.state = "returned"] @@
               [ret |-> FileParse(call.tokens)]
    /\ UNCHANGED pipeVars
    /\ UNCHANGED compiler

NextFile == CallFileParse

SpecFile == InitFile /\ [][NextFile]_vars

\* File::parse has returned `FileRet` for `FileToks`.
FileDone == call.fn = "File::parse" /\ call.state = "returned"
FileRet == call.ret
FileToks == call.tokens

\* The position after the attributes that start at s.
AfterAttributes(s) ==
    CHOOSE e \in s..(Len(FileToks) + 1) :
      /\ Peek(FileToks, e) # "#[]"
      /\ \A j \in s..(e - 1) : FileToks[j] = "#[]"

\* The attributes written right before position e, in order.
AttributesBefore(e) ==
    LET first == CHOOSE f \in 1..e :
                   /\ \A j \in f..(e - 1) : FileToks[j] = "#[]"
                   /\ f = 1 \/ FileToks[f - 1] # "#[]"
    IN [i \in 1..(e - first) |-> first + i - 1]

\* The meta written right before the item at position k.
VisibilityBefore(k) == k > 1 /\ FileToks[k - 1] = "pub"
MetaStart(k) == IF VisibilityBefore(k) THEN k - 1 ELSE k

IsItemStart(pos) == Peek(FileToks, pos) \in {"fn", "use"}

\* C27: File::parse fails with UnsupportedItemAttributes when item
\* attributes were parsed that no item follows, with
\* UnsupportedItemVisibility when a visibility was (the attributes come
\* first when both dangle); the attributes and the visibility parsed before
\* an item are attached to that item and to no later one.
C27_FileParseMeta ==
    FileDone =>
      /\ FileRet.error.kind = "UnsupportedItemAttributes" =>
           LET s == FileRet.error.span
               e == AfterAttributes(s)
           IN /\ FileToks[s] = "#[]"
              /\ s = 1 \/ FileToks[s - 1] # "#[]"
              /\ ~IsItemStart(IF Peek(FileToks, e) = "pub" THEN e + 1 ELSE e)
      /\ FileRet.error.kind = "UnsupportedItemVisibility" =>
           LET s == FileRet.error.span
           IN /\ FileToks[s] = "pub"
              /\ ~IsItemStart(s + 1)
              /\ s = 1 \/ FileToks[s - 1] # "#[]"
      /\ FileRet.ok =>
           LET items == FileRet.file.items
               attached == UNION { { items[i].item.attributes[j] :
                                       j \in DOMAIN items[i].item.attributes }
                                   : i \in DOMAIN items }
               visible == { items[i].item.visibility.span :
                              i \in { j \in DOMAIN items :
                                        items[j].item.visibility.some } }
           IN /\ Peek(FileToks, FileRet.pos) \notin {"#[]", "pub", "fn", "use"}
              /\ \A j \in 1..(FileRet.pos - 1) :
                   /\ FileToks[j] = "#[]" => j \in attached
                   /\ FileToks[j] = "pub" => j \in visible
              /\ \A i \in DOMAIN items :
                   LET k == items[i].item.span
                   IN /\ IsItemStart(k)
                      /\ items[i].item.visibility.some = VisibilityBefore(k)
                      /\ items[i].item.visibility.some =>
                           items[i].item.visibility.span = k - 1
                      /\ items[i].item.attributes
                           = AttributesBefore(MetaStart(k))
                      /\ \A h \in DOMAIN items :
                           h < i => \A j \in DOMAIN items[i].item.attributes :
                                      items[i].item.attributes[j]
                                        > items[h].item.span

\* `#[..] fn #[..] pub`: the first attribute went to the item, the second
\* dangles with the visibility, and the error is that of the attribute.
C27_Witness ==
    /\ FileDone /\ FileToks = <<"#[]", "fn", "#[]", "pub">>
    /\ FileRet.error = [kind |-> "UnsupportedItemAttributes", span |-> 3]

\* ============================================================ MacroCall
\* A token is its kind and its span; the Parser is the tokens it reads from
\* and the position of the next one.
MaxMacroTokens == 5

MacroKinds == {"!", "(", ")", "[", "]", "x"}

Token(kind, span) == [kind |-> kind, span |-> span]
NoToken == Token("none", 0)

\* ast::Kind::Open(delim) and ast::Kind::Close(delim)
IsOpen(kind) == kind \in {"(", "[", "{"}
IsClose(kind) == kind \in {")", "]", "}"}
Delimiter(kind) ==
    IF kind \in {"(", ")"} THEN "Parenthesis"
    ELSE IF kind \in {"[", "]"} THEN "Bracket"
    ELSE "Brace"

ParserAt(tokens, pos) == [tokens |-> tokens, pos |-> pos]

\* Parser::next: the next token, or an error at the end of the input.
ParserNext(parser) ==
    IF parser.pos > Len(parser.tokens)
    THEN [err |-> TRUE, token |-> NoToken, parser |-> parser]
    ELSE [err |-> FALSE, token |-> parser.tokens[parser.pos],
          parser |-> [parser EXCEPT !.pos = @ + 1]]

NoParseError == [kind |-> "none", span |-> 0, actual |-> "none", expected |-> "none"]
ParseError(kind, span) == [NoParseError EXCEPT !.kind = kind, !.span = span]

NoMacroCall ==
    [id |-> "None", attributes |-> <<>>, path |-> NoToken, bang |-> NoToken,
     open |-> NoToken, stream |-> <<>>, close |-> NoToken]

MacroErr(error, parser) ==
    [ok |-> FALSE, error |-> error, ast |-> NoMacroCall, parser |-> parser]

\* parse_with_meta_path: Ok(Self { .. })
MacroOk(attributes, path, bang, open, stream, close, parser) ==
    [ok |-> TRUE, error |-> NoParseError,
     ast |-> [id |-> "None", attributes |-> attributes, path |-> path,
              bang |-> bang, open |-> open, stream |-> stream, close |-> close],
     parser |-> parser]

\* A faulty variant: Open tokens do not raise the level, so the call ends at
\* the first Close token
RECURSIVE MacroLoopFirstClose(_, _, _, _, _, _, _)
MacroLoopFirstClose(parser, attributes, path, bang, open, level, stream) ==
    IF ParserNext(parser).err
    THEN MacroErr(ParseError("UnexpectedEof", Len(parser.tokens) + 1), parser)
    ELSE IF IsClose(ParserNext(parser).token.kind) /\ level - 1 = 0
    THEN IF Delimiter(ParserNext(parser).token.kind) # Delimiter(open.kind)
         THEN MacroErr([kind |-> "ExpectedMacroCloseDelimiter",
                        span |-> open.span,
                        actual |-> ParserNext(parser).token.kind,
                        expected |-> Delimiter(open.kind)],
                       ParserNext(parser).parser)
         ELSE MacroOk(attributes, path, bang, open, stream,
                      ParserNext(parser).token, ParserNext(parser).parser)
    ELSE MacroLoopFirstClose(ParserNext(parser).parser, attributes, path, bang, open,
                             IF IsClose(ParserNext(parser).token.kind)
                             THEN level - 1 ELSE level,
                             Append(stream, ParserNext(parser).token))

\* A faulty variant: Open tokens inside the call are counted but not kept in
\* the stream
RECURSIVE MacroLoopDropOpen(_, _, _, _, _, _, _)
MacroLoopDropOpen(parser, attributes, path, bang, open, level, stream) ==
    IF ParserNext(parser).err
    THEN MacroErr(ParseError("UnexpectedEof", Len(parser.tokens) + 1), parser)
    ELSE IF IsClose(ParserNext(parser).token.kind) /\ level - 1 = 0
    THEN IF Delimiter(ParserNext(parser).token.kind) # Delimiter(open.kind)
         THEN MacroErr([kind |-> "ExpectedMacroCloseDelimiter",
                        span |-> open.span,
                        actual |-> ParserNext(parser).token.kind,
                        expected |-> Delimiter(open.kind)],
                       ParserNext(parser).parser)
         ELSE MacroOk(attributes, path, bang, open, stream,
                      ParserNext(parser).token, ParserNext(parser).parser)
    ELSE MacroLoopDropOpen(ParserNext(parser).parser, attributes, path, bang, open,
                           IF IsOpen(ParserNext(parser).token.kind) THEN level + 1
                           ELSE IF IsClose(ParserNext(parser).token.kind) THEN level - 1
                           ELSE level,
                           IF IsOpen(ParserNext(parser).token.kind) THEN stream
                           ELSE Append(stream, ParserNext(parser).token))

\* The loop of parse_with_meta_path, entered with the level and the stream
\* reached so far.
RECURSIVE MacroLoop(_, _, _, _, _, _, _)
MacroLoop(parser, attributes, path, bang, open, level, stream) ==
    IF ParserNext(parser).err
    THEN MacroErr(ParseError("UnexpectedEof", Len(parser.tokens) + 1), parser)
    ELSE IF IsClose(ParserNext(parser).token.kind) /\ level - 1 = 0
    THEN IF Delimiter(ParserNext(parser).token.kind) # Delimiter(open.kind)
         THEN MacroErr([kind |-> "ExpectedMacroCloseDelimiter",
                        span |-> open.span,
                        actual |-> ParserNext(parser).token.kind,
                        expected |-> Delimiter(open.kind)],
                       ParserNext(parser).parser)
         ELSE MacroOk(attributes, path, bang, open, stream,
                      ParserNext(parser).token, ParserNext(parser).parser)
    ELSE MacroLoop(ParserNext(parser).parser, attributes, path, bang, open,
                   IF IsOpen(ParserNext(parser).token.kind) THEN level + 1
                   ELSE IF IsClose(ParserNext(parser).token.kind) THEN level - 1
                   ELSE level,
                   Append(stream, ParserNext(parser).token))

\* parse_with_meta_path after `let bang = parser.parse()?`: the opening
\* token is taken and the loop entered at level 1.
MacroOpen(parser, attributes, path, bang) ==
    IF ParserNext(parser).err
    THEN MacroErr(ParseError("UnexpectedEof", Len(parser.tokens) + 1), parser)
    ELSE IF ~IsOpen(ParserNext(parser).token.kind)
    THEN MacroErr(ParseError("Expected", ParserNext(parser).token.span),
                  ParserNext(parser).parser)
    ELSE MacroLoop(ParserNext(parser).parser, attributes, path, bang,
                   ParserNext(parser).token, 1, <<>>)

\* Parser::parse of the `!` token
ParseBang(parser) ==
    IF ParserNext(parser).err
    THEN [err |-> TRUE, error |-> ParseError("UnexpectedEof", Len(parser.tokens) + 1),
          token |-> NoToken, parser |-> parser]
    ELSE IF ParserNext(parser).token.kind # "!"
    THEN [err |-> TRUE, error |-> ParseError("Expected", ParserNext(parser).token.span),
          token |-> NoToken, parser |-> parser]
    ELSE [err |-> FALSE, error |-> NoParseError,
          token |-> ParserNext(parser).token, parser |-> ParserNext(parser).parser]

\* MacroCall::parse_with_meta_path
ParseWithMetaPath(parser, attributes, path) ==
    IF ParseBang(parser).err
    THEN MacroErr(ParseBang(parser).error, parser)
    ELSE MacroOpen(ParseBang(parser).parser, attributes, path, ParseBang(parser).token)

\* ------------------------------------------------------------ SpecMacro
\* The tokens of a source whose i-th token has the kind kinds[i].
Tokens(kinds) == [i \in DOMAIN kinds |-> Token(kinds[i], i)]

\* The path already parsed by the caller.
CallerPath == Token("path", 0)

InitMacro ==
    /\ \E n \in 0..MaxMacroTokens : \E kinds \in [1..n -> MacroKinds] :
         call = [fn |-> "parse_with_meta_path", state |-> "called",
                 tokens |-> Tokens(kinds)]
    /\ compiler = IdleCompiler
    /\ pc = "idle" /\ sources = <<>> /\ queue = <<>> /\ qqueue = <<>>
    /\ unit = [functions |-> {}, imports |-> <<>>, names |-> EmptyNames]
    /\ context = EmptyNames /\ result = Running /\ hist = <<>>

CallParseWithMetaPath ==
    /\ call.fn = "parse_with_meta_path" /\ call.state = "called"
    /\ call' = [call EXCEPT !.state = "returned"] @@
               [ret |-> ParseWithMetaPath(ParserAt(call.tokens, 1), <<>>, CallerPath)]
    /\ UNCHANGED pipeVars
    /\ UNCHANGED compiler

NextMacro == CallParseWithMetaPath

SpecMacro == InitMacro /\ [][NextMacro]_vars

\* ------------------------------------------------- claims on MacroCall
MacroDone == call.fn = "parse_with_meta_path" /\ call.state = "returned"
MacroRet == call.ret
MacroToks == call.tokens

\* The call got as far as its opening delimiter, the second token.
MacroOpened ==
    /\ Len(MacroToks) >= 2
    /\ MacroToks[1].kind = "!"
    /\ IsOpen(MacroToks[2].kind)

\* The nesting level after the token at k: 1 on the opening delimiter, one
\* more for each Open and one less for each Close after it.
LevelAfter(k) ==
    1 + Cardinality({ j \in 3..k : IsOpen(MacroToks[j].kind) })
      - Cardinality({ j \in 3..k : IsClose(MacroToks[j].kind) })

\* The positions of the Close tokens that bring the level to 0.
LevelZero == { k \in 3..Len(MacroToks) : IsClose(MacroToks[k].kind) /\ LevelAfter(k) = 0 }
FirstLevelZero == CHOOSE k \in LevelZero : \A j \in LevelZero : k <= j

\* C30: parse_with_meta_path counts the level from 1 on the opening
\* delimiter, up on Open and down on Close, and ends at the first Close that
\* brings it to 0: with the opening delimiter there it succeeds and keeps
\* exactly the tokens strictly between the two, in order, with another
\* delimiter it fails with ExpectedMacroCloseDelimiter, and when the tokens
\* run out before level 0 it fails.
C30_MacroCallLevel ==
    (MacroDone /\ MacroOpened) =>
      /\ LevelZero = {} =>
           /\ ~MacroRet.ok
           /\ MacroRet.error.kind = "UnexpectedEof"
      /\ LevelZero # {} =>
           LET e == FirstLevelZero IN
           IF Delimiter(MacroToks[e].kind) = Delimiter(MacroToks[2].kind)
           THEN /\ MacroRet.ok
                /\ MacroRet.ast.open = MacroToks[2]
                /\ MacroRet.ast.close = MacroToks[e]
                /\ MacroRet.ast.stream = SubSeq(MacroToks, 3, e - 1)
                /\ MacroRet.parser.pos = e + 1
           ELSE /\ ~MacroRet.ok
                /\ MacroRet.error.kind = "ExpectedMacroCloseDelimiter"
                /\ MacroRet.error.actual = MacroToks[e].kind
                /\ MacroRet.error.expected = Delimiter(MacroToks[2].kind)

\* `!([])`: the inner pair is kept in the stream and the call ends at the
\* second Close token.
C30_Witness ==
    /\ MacroDone /\ MacroOpened /\ MacroRet.ok
    /\ Len(MacroToks) = 5
    /\ MacroRet.ast.stream = <<Token("[", 3), Token("]", 4)>>
    /\ MacroRet.ast.close = Token(")", 5)

\* ============================================================ roundtrip
\* testing::roundtrip::<T>(source): the source is parsed as T to the end of
\* the input, the tree rendered with ToTokens, and the token stream parsed as
\* T again.
MaxMacroSource == 6
MaxBodySource == 5

\* The characters of a source: tokens and the whitespace between them.
MacroSourceKinds == {" ", "x", "!", "(", ")"}
BodySourceKinds == {" ", "pub", "x", "(", ")", "{", "}", ",", ";"}

\* Parser::new(source): the lexer skips whitespace and gives every token
\* its span in the source.
Lex(source) ==
    SelectSeq([i \in DOMAIN source |-> Token(source[i], i)], LAMBDA t : t.kind # " ")

\* Parser::peek: the kind of the next token, "eof" at the end.
PeekKind(parser) ==
    IF parser.pos > Len(parser.tokens) THEN "eof" ELSE parser.tokens[parser.pos].kind

\* Parser::eof
ParserEof(parser) == parser.pos > Len(parser.tokens)

\* Parser::parse of a token type of one kind
ParseKind(parser, kind) ==
    IF PeekKind(parser) = kind
    THEN [err |-> FALSE, error |-> NoParseError,
          token |-> ParserNext(parser).token, parser |-> ParserNext(parser).parser]
    ELSE [err |-> TRUE,
          error |-> IF ParserEof(parser)
                    THEN ParseError("UnexpectedEof", Len(parser.tokens) + 1)
                    ELSE ParseError("Expected", parser.tokens[parser.pos].span),
          token |-> NoToken, parser |-> parser]

\* <Vec<ast::Attribute> as Parse>::parse: the attributes in front, each one
\* token here.
RECURSIVE ParseAttributeTokens(_, _)
ParseAttributeTokens(parser, attributes) ==
    IF PeekKind(parser) = "#[]"
    THEN ParseAttributeTokens(ParserNext(parser).parser,
                              Append(attributes, ParserNext(parser).token))
    ELSE [attributes |-> attributes, parser |-> parser]

\* <ast::Visibility as Parse>::parse: `pub` or Inherited
ParseVisibilityToken(parser) ==
    IF PeekKind(parser) = "pub"
    THEN [visibility |-> [some |-> TRUE, token |-> ParserNext(parser).token],
          parser |-> ParserNext(parser).parser]
    ELSE [visibility |-> [some |-> FALSE, token |-> NoToken], parser |-> parser]

\* <MacroCall as Parse>::parse, once the attributes are parsed
MacroCallParsePath(parser, attributes) ==
    IF ParseKind(parser, "x").err
    THEN MacroErr(ParseKind(parser, "x").error, parser)
    ELSE ParseWithMetaPath(ParseKind(parser, "x").parser, attributes,
                           ParseKind(parser, "x").token)

\* <MacroCall as Parse>::parse
MacroCallParse(parser) ==
    MacroCallParsePath(ParseAttributeTokens(parser, <<>>).parser,
                       ParseAttributeTokens(parser, <<>>).attributes)

\* ToTokens of MacroCall: the fields in the order declared, the id left out.
MacroCallToTokens(ast) ==
    ast.attributes \o <<ast.path, ast.bang, ast.open>> \o ast.stream \o <<ast.close>>

\* ---- Field
NoField == [attributes |-> <<>>, visibility |-> [some |-> FALSE, token |-> NoToken], name |-> NoToken]

FieldParseName(attributes, visibility, parser) ==
    IF ParseKind(parser, "x").err
    THEN [err |-> TRUE, error |-> ParseKind(parser, "x").error, field |-> NoField,
          parser |-> parser]
    ELSE [err |-> FALSE, error |-> NoParseError,
          field |-> [attributes |-> attributes, visibility |-> visibility,
                     name |-> ParseKind(parser, "x").token],
          parser |-> ParseKind(parser, "x").parser]

FieldParseVisibility(attributes, parser) ==
    FieldParseName(attributes, ParseVisibilityToken(parser).visibility,
                   ParseVisibilityToken(parser).parser)

\* <Field as Parse>::parse
FieldParse(parser) ==
    FieldParseVisibility(ParseAttributeTokens(parser, <<>>).attributes,
                         ParseAttributeTokens(parser, <<>>).parser)

\* ToTokens of Field
FieldToTokens(field) ==
    field.attributes
      \o (IF field.visibility.some THEN <<field.visibility.token>> ELSE <<>>)
      \o <<field.name>>

\* ---- Parenthesized<Field, Comma> and Braced<Field, Comma>
NoDelimited == [open |-> NoToken, items |-> <<>>, close |-> NoToken]
DelimitedErr(error, parser) ==
    [err |-> TRUE, error |-> error, delimited |-> NoDelimited, parser |-> parser]

DelimitedClose(open, items, closing, parser) ==
    IF ParseKind(parser, closing).err
    THEN DelimitedErr(ParseKind(parser, closing).error, parser)
    ELSE [err |-> FALSE, error |-> NoParseError,
          delimited |-> [open |-> open, items |-> items,
                         close |-> ParseKind(parser, closing).token],
          parser |-> ParseKind(parser, closing).parser]

\* The items up to the closing delimiter: a field and the comma after it,
\* the last one with or without a comma.
RECURSIVE DelimitedItems(_, _, _, _)
DelimitedItems(open, items, closing, parser) ==
    IF PeekKind(parser) \in {closing, "eof"}
    THEN DelimitedClose(open, items, closing, parser)
    ELSE IF FieldParse(parser).err
    THEN DelimitedErr(FieldParse(parser).error, parser)
    ELSE IF PeekKind(FieldParse(parser).parser) = ","
    THEN DelimitedItems(open,
                        Append(items, [item |-> FieldParse(parser).field,
                                       comma |-> [some |-> TRUE,
                                                  token |-> ParserNext(FieldParse(parser).parser).token]]),
                        closing, ParserNext(FieldParse(parser).parser).parser)
    ELSE DelimitedClose(open,
                        Append(items, [item |-> FieldParse(parser).field,
                                       comma |-> [some |-> FALSE, token |-> NoToken]]),
                        closing, FieldParse(parser).parser)

DelimitedParse(parser, opening, closing) ==
    IF ParseKind(parser, opening).err
    THEN DelimitedErr(ParseKind(parser, opening).error, parser)
    ELSE DelimitedItems(ParseKind(parser, opening).token, <<>>, closing,
                        ParseKind(parser, opening).parser)

RECURSIVE ItemsToTokens(_)
ItemsToTokens(items) ==
    IF items = <<>> THEN <<>>
    ELSE FieldToTokens(Head(items).item)
           \o (IF Head(items).comma.some THEN <<Head(items).comma.token>> ELSE <<>>)
           \o ItemsToTokens(Tail(items))

DelimitedToTokens(d) == <<d.open>> \o ItemsToTokens(d.items) \o <<d.close>>

\* ---- ItemStructBody
NoBody == [variant |-> "none", body |-> NoDelimited, semi |-> NoToken]
BodyErr(error, parser) == [ok |-> FALSE, error |-> error, ast |-> NoBody, parser |-> parser]
BodyOk(variant, body, semi, parser) ==
    [ok |-> TRUE, error |-> NoParseError,
     ast |-> [variant |-> variant, body |-> body, semi |-> semi], parser |-> parser]

\* Self::EmptyBody(parser.parse()?) and the second field of Self::TupleBody
BodySemiColon(variant, body, parser) ==
    IF ParseKind(parser, ";").err
    THEN BodyErr(ParseKind(parser, ";").error, parser)
    ELSE BodyOk(variant, body, ParseKind(parser, ";").token, ParseKind(parser, ";").parser)

\* Self::TupleBody(parser.parse()?, parser.parse()?)
BodyTuple(parser) ==
    IF DelimitedParse(parser, "(", ")").err
    THEN BodyErr(DelimitedParse(parser, "(", ")").error, parser)
    ELSE BodySemiColon("TupleBody", DelimitedParse(parser, "(", ")").delimited,
                       DelimitedParse(parser, "(", ")").parser)

\* Self::StructBody(parser.parse()?)
BodyStruct(parser) ==
    IF DelimitedParse(parser, "{", "}").err
    THEN BodyErr(DelimitedParse(parser, "{", "}").error, parser)
    ELSE BodyOk("StructBody", DelimitedParse(parser, "{", "}").delimited, NoToken,
                DelimitedParse(parser, "{", "}").parser)

\* <ItemStructBody as Parse>::parse
ItemStructBodyParse(parser) ==
    IF ParserEof(parser)
    THEN BodyErr(ParseError("UnexpectedEof", Len(parser.tokens) + 1), parser)
    ELSE IF PeekKind(parser) = "(" THEN BodyTuple(parser)
    ELSE IF PeekKind(parser) = "{" THEN BodyStruct(parser)
    ELSE BodySemiColon("EmptyBody", NoDelimited, parser)

\* ToTokens of ItemStructBody
ItemStructBodyToTokens(ast) ==
    IF ast.variant = "EmptyBody" THEN <<ast.semi>>
    ELSE IF ast.variant = "TupleBody" THEN DelimitedToTokens(ast.body) \o <<ast.semi>>
    ELSE DelimitedToTokens(ast.body)

\* ---- the harness
Forms == {"MacroCall", "ItemStructBody"}

ParseAs(form, parser) ==
    IF form = "MacroCall" THEN MacroCallParse(parser) ELSE ItemStructBodyParse(parser)

ToTokens(form, ast) ==
    IF form = "MacroCall" THEN MacroCallToTokens(ast) ELSE ItemStructBodyToTokens(ast)

\* Where roundtrip panics, or "ok" when it returns.
RoundtripSecond(form, first, stream, second) ==
    [first |-> first, stream |-> stream, second |-> second,
     outcome |-> IF ~second.ok THEN "second parse"
                 ELSE IF ~ParserEof(second.parser) THEN "second parse eof"
                 ELSE IF first.ast # second.ast THEN "assert_eq"
                 ELSE "ok"]

RoundtripStream(form, first, stream) ==
    RoundtripSecond(form, first, stream, ParseAs(form, ParserAt(stream, 1)))

RoundtripFirst(form, first) ==
    IF ~first.ok
    THEN [first |-> first, stream |-> <<>>, second |-> first, outcome |-> "first parse"]
    ELSE IF ~ParserEof(first.parser)
    THEN [first |-> first, stream |-> <<>>, second |-> first, outcome |-> "first parse eof"]
    ELSE RoundtripStream(form, first, ToTokens(form, first.ast))

\* testing::roundtrip
Roundtrip(form, source) == RoundtripFirst(form, ParseAs(form, ParserAt(Lex(source), 1)))

\* --------------------------------------------------------- SpecRoundtrip
InitRoundtrip ==
    /\ \/ \E n \in 0..MaxMacroSource : \E source \in [1..n -> MacroSourceKinds] :
            call = [fn |-> "roundtrip", state |-> "called", form |-> "MacroCall",
                    source |-> source]
       \/ \E n \in 0..MaxBodySource : \E source \in [1..n -> BodySourceKinds] :
            call = [fn |-> "roundtrip", state |-> "called", form |-> "ItemStructBody",
                    source |-> source]
    /\ compiler = IdleCompiler
    /\ pc = "idle" /\ sources = <<>> /\ queue = <<>> /\ qqueue = <<>>
    /\ unit = [functions |-> {}, imports |-> <<>>, names |-> EmptyNames]
    /\ context = EmptyNames /\ result = Running /\ hist = <<>>

CallRoundtrip ==
    /\ call.fn = "roundtrip" /\ call.state = "called"
    /\ call' = [call EXCEPT !.state = "returned"] @@
               [ret |-> Roundtrip(call.form, call.source)]
    /\ UNCHANGED pipeVars
    /\ UNCHANGED compiler

NextRoundtrip == CallRoundtrip

SpecRoundtrip == InitRoundtrip /\ [][NextRoundtrip]_vars

\* ------------------------------------------------ claims on the round trip
RoundtripDone == call.fn = "roundtrip" /\ call.state = "returned"

\* The source parsed as the form to the end of the input.
FirstParsed == call.ret.outcome \notin {"first parse", "first parse eof"}

====
